---------------------------- MODULE Spec2Model ----------------------------
(***************************************************************************)
(* Model of the retail-analytics question-answering pipeline:              *)
(*   agent/dspy_signatures.py  Router, Synthesizer                         *)
(*   agent/graph_hybrid.py     HybridAgent.answer and its helpers          *)
(*   agent/tools/sqlite_tool.py SQLiteTool.execute                         *)
(*   agent/rag/retrieval.py    Retriever.retrieve                          *)
(* The agent is modelled in its primary configuration, in which the        *)
(* imports of graph_hybrid.py lines 32-45 succeed and the Router, Planner, *)
(* NL2SQL, Synthesizer, Retriever and SQLiteTool classes are used.         *)
(* Python strings are TLA+ strings; Len, SubSeq and \o act on them.        *)
(***************************************************************************)
EXTENDS Integers, Sequences, FiniteSets, TLC

(***************************************************************************)
(* Strings.                                                                *)
(***************************************************************************)

\* The printable ASCII characters the model uses, in code-point order.
Ascii == " !\"#$%&'()*+,-./0123456789:;<=>?@ABCDEFGHIJKLMNOPQRSTUVWXYZ[]^_abcdefghijklmnopqrstuvwxyz{|}~"

UpperCase == "ABCDEFGHIJKLMNOPQRSTUVWXYZ"
LowerCase == "abcdefghijklmnopqrstuvwxyz"
Digits == "0123456789"

\* Python's s[i-1:j] for 1 <= i: positions i..j of s, cut to the string
Slice(s, i, j) ==
    IF i > j \/ i > Len(s) THEN "" ELSE SubSeq(s, i, IF j > Len(s) THEN Len(s) ELSE j)

\* the character at position i, "" beyond the end
CharAt(s, i) == Slice(s, i, i)

\* Index (from 1) of the first occurrence of p in s at or after position
\* from, 0 when there is none (str.find with a 1-based result).
Find(s, p, from) ==
    LET hits == {i \in from..(Len(s) - Len(p) + 1) : Slice(s, i, i + Len(p) - 1) = p}
    IN  IF hits = {} THEN 0 ELSE CHOOSE i \in hits : \A j \in hits : i <= j

\* Python's `p in s`.
Contains(s, p) == Find(s, p, 1) # 0

StartsWith(s, p) == Len(s) >= Len(p) /\ Slice(s, 1, Len(p)) = p
EndsWith(s, p) == Len(s) >= Len(p) /\ Slice(s, Len(s) - Len(p) + 1, Len(s)) = p

CharSet(s) == {CharAt(s, i) : i \in 1..Len(s)}

\* Code-point rank of each character.
OrdMap == [c \in CharSet(Ascii) |-> Find(Ascii, c, 1)]
Ord(c) == OrdMap[c]

LowerMap ==
    [c \in CharSet(Ascii) |->
        IF Find(UpperCase, c, 1) = 0 THEN c ELSE CharAt(LowerCase, Find(UpperCase, c, 1))]
LowerChar(c) == LowerMap[c]

RECURSIVE Lower(_)
\* str.lower(), halving the string
Lower(s) ==
    IF s = "" THEN ""
    ELSE IF Len(s) = 1 THEN LowerChar(s)
    ELSE Lower(Slice(s, 1, Len(s) \div 2)) \o Lower(Slice(s, Len(s) \div 2 + 1, Len(s)))

DigitSet == CharSet(Digits)
WordCharSet == CharSet(UpperCase) \cup CharSet(LowerCase) \cup DigitSet \cup {"_"}

IsSpace(c) == c = " "
IsDigit(c) == c \in DigitSet

RECURSIVE LStrip(_)
LStrip(s) == IF s # "" /\ IsSpace(CharAt(s, 1)) THEN LStrip(Slice(s, 2, Len(s))) ELSE s
RECURSIVE RStrip(_)
RStrip(s) == IF s # "" /\ IsSpace(CharAt(s, Len(s))) THEN RStrip(Slice(s, 1, Len(s) - 1)) ELSE s
\* str.strip()
Strip(s) == LStrip(RStrip(s))

RECURSIVE StrLess(_, _)
\* Python's s < t on strings: lexicographic by code point.
StrLess(s, t) ==
    IF t = "" THEN FALSE
    ELSE IF s = "" THEN TRUE
    ELSE IF CharAt(s, 1) = CharAt(t, 1)
         THEN StrLess(Slice(s, 2, Len(s)), Slice(t, 2, Len(t)))
         ELSE Ord(CharAt(s, 1)) < Ord(CharAt(t, 1))

RECURSIVE SortedSeqOf(_)
\* sorted(set): the elements of a finite set of strings in ascending order.
SortedSeqOf(S) ==
    IF S = {} THEN <<>>
    ELSE LET m == CHOOSE x \in S : \A y \in S : y = x \/ StrLess(x, y)
         IN  <<m>> \o SortedSeqOf(S \ {m})

SeqToSet(sq) == {sq[i] : i \in 1..Len(sq)}

RECURSIVE JoinSpace(_)
\* " ".join(parts)
JoinSpace(parts) ==
    IF parts = <<>> THEN ""
    ELSE IF Len(parts) = 1 THEN parts[1]
    ELSE parts[1] \o " " \o JoinSpace(Tail(parts))

(***************************************************************************)
(* Router (dspy_signatures.py).                                            *)
(***************************************************************************)

rag_only_patterns ==
    << <<"policy", "return">>, <<"return window">>, <<"return days">>,
       <<"unopened beverages">> >>

sql_only_patterns ==
    << <<"top 3 products", "revenue", "alltime">>, <<"top 3 products">> >>

hybrid_patterns ==
    << <<"during", "summer">>, <<"during", "winter">>, <<"during", "1997">>,
       <<"category", "quantity", "summer">>, <<"aov", "winter">>,
       <<"aov", "during">>, <<"revenue", "beverages", "summer">>,
       <<"best customer", "margin", "1997">>, <<"gross margin", "1997">> >>

aggregate_keywords == {"top", "revenue", "total", "average", "margin", "quantity"}
temporal_keywords == {"during", "summer", "winter", "1997", "date"}

\* all(p in q for p in pattern) for some pattern of the tier
TierMatches(tier, q) ==
    \E i \in 1..Len(tier) : \A j \in 1..Len(tier[i]) : Contains(q, tier[i][j])

\* predict without the final return: a question that matches nothing gets no route
predict_without_default(question) ==
    LET q == Lower(question)
    IN  IF TierMatches(rag_only_patterns, q) THEN "rag"
        ELSE IF TierMatches(sql_only_patterns, q) THEN "sql"
        ELSE IF TierMatches(hybrid_patterns, q) THEN "hybrid"
        ELSE IF \E kw \in aggregate_keywords : Contains(q, kw)
             THEN IF \E kw \in temporal_keywords : Contains(q, kw)
                  THEN "hybrid"
                  ELSE "sql"
        ELSE "none"

\* predict with the combined tier tried before the structured-only tier
predict_hybrid_before_sql(question) ==
    LET q == Lower(question)
    IN  IF TierMatches(rag_only_patterns, q) THEN "rag"
        ELSE IF TierMatches(hybrid_patterns, q) THEN "hybrid"
        ELSE IF TierMatches(sql_only_patterns, q) THEN "sql"
        ELSE IF \E kw \in aggregate_keywords : Contains(q, kw)
             THEN IF \E kw \in temporal_keywords : Contains(q, kw)
                  THEN "hybrid"
                  ELSE "sql"
        ELSE "hybrid"

predict(question) ==
    LET q == Lower(question)
    IN  IF TierMatches(rag_only_patterns, q) THEN "rag"
        ELSE IF TierMatches(sql_only_patterns, q) THEN "sql"
        ELSE IF TierMatches(hybrid_patterns, q) THEN "hybrid"
        ELSE IF \E kw \in aggregate_keywords : Contains(q, kw)
             THEN IF \E kw \in temporal_keywords : Contains(q, kw)
                  THEN "hybrid"
                  ELSE "sql"
        ELSE "hybrid"

(***************************************************************************)
(* Values.  A cell of a result row is NULL (None), an int, a float or a    *)
(* text; a float is kept in thousandths (12345 is 12.345).  An answer      *)
(* value is tagged with its Python type.                                   *)
(***************************************************************************)

Null == [t |-> "null"]
\* a Python int
IntCell(n) == [t |-> "int", val |-> n]
\* a Python float, in thousandths
FloatCell(milli) == [t |-> "float", milli |-> milli]
TextCell(s) == [t |-> "str", s |-> s]

NoneVal == [kind |-> "none"]
IntVal(n) == [kind |-> "int", val |-> n]
\* a float rounded to two decimals, kept in hundredths
FloatVal(centi) == [kind |-> "float", centi |-> centi]
StrVal(s) == [kind |-> "str", s |-> s]
\* a dict: its keys in insertion order and the value of each
ObjVal(keys, vals) == [kind |-> "obj", keys |-> keys, vals |-> vals]
ListVal(items) == [kind |-> "list", items |-> items]

RECURSIVE DigitsToNat(_)
\* int("014") = 14
DigitsToNat(s) ==
    IF s = "" THEN 0
    ELSE 10 * DigitsToNat(Slice(s, 1, Len(s) - 1)) + (Find(Digits, CharAt(s, Len(s)), 1) - 1)

IsAllDigits(s) == s # "" /\ \A i \in 1..Len(s) : IsDigit(CharAt(s, i))

RECURSIVE NatToStr(_)
\* str(n) for n >= 0
NatToStr(n) ==
    IF n < 10 THEN CharAt(Digits, n + 1)
    ELSE NatToStr(n \div 10) \o CharAt(Digits, (n % 10) + 1)

\* float(v) succeeds: v is a number, or a text that reads as one
FloatOk(v) == v.t \in {"int", "float"} \/ (v.t = "str" /\ IsAllDigits(v.s))
\* float(v) in thousandths, where FloatOk(v)
FloatOf(v) ==
    IF v.t = "float" THEN v.milli
    ELSE IF v.t = "int" THEN 1000 * v.val
    ELSE 1000 * DigitsToNat(v.s)

\* round(x / unit): Python rounds halves to the even neighbour
RoundHalfEven(x, unit) ==
    LET q == x \div unit
        r == x % unit
    IN  IF 2 * r < unit THEN q
        ELSE IF 2 * r > unit THEN q + 1
        ELSE IF q % 2 = 0 THEN q ELSE q + 1

\* int(round(float(val)))
ToInt(v) == RoundHalfEven(FloatOf(v), 1000)
\* round(float(val), 2), in hundredths
ToFloat2(v) == RoundHalfEven(FloatOf(v), 10)

\* row.get(col): a row is a dict keyed by the column names, kept here as the
\* cells in column order; None when the row has no such key
RowGet(row, columns, col) ==
    LET hits == {i \in 1..Len(columns) : columns[i] = col}
    IN  IF hits = {} THEN Null ELSE row[CHOOSE i \in hits : \A j \in hits : i >= j]

(***************************************************************************)
(* Synthesizer (dspy_signatures.py).                                       *)
(***************************************************************************)

RECURSIVE Split(_, _)
\* s.split(sep)
Split(s, sep) ==
    LET i == Find(s, sep, 1)
    IN  IF i = 0 THEN <<s>>
        ELSE <<Slice(s, 1, i - 1)>> \o Split(Slice(s, i + Len(sep), Len(s)), sep)

RECURSIVE StripChars(_, _)
\* s.strip(chars)
StripChars(s, chars) ==
    IF s # "" /\ Contains(chars, CharAt(s, 1)) THEN StripChars(Slice(s, 2, Len(s)), chars)
    ELSE IF s # "" /\ Contains(chars, CharAt(s, Len(s))) THEN StripChars(Slice(s, 1, Len(s) - 1), chars)
    ELSE s

RECURSIVE ParseParts(_)
ParseParts(parts) ==
    IF parts = <<>> THEN <<>>
    ELSE LET part == Strip(Head(parts))
             i == Find(part, ":", 1)
         IN  IF i = 0 THEN ParseParts(Tail(parts))
             ELSE << <<Strip(Slice(part, 1, i - 1)), Strip(Slice(part, i + 1, Len(part)))>> >>
                  \o ParseParts(Tail(parts))

\* 'category:str, quantity:int' -> <<category, str>>, <<quantity, int>>
parse_format_spec(spec) == ParseParts(Split(spec, ","))

\* str(val) of a float kept in thousandths: 12340 is "12.34", 12000 is "12.0"
FloatRepr(milli) ==
    LET whole == NatToStr(milli \div 1000)
        f == milli % 1000
    IN  IF f = 0 THEN whole \o ".0"
        ELSE IF f % 100 = 0 THEN whole \o "." \o NatToStr(f \div 100)
        ELSE IF f % 10 = 0
             THEN whole \o "." \o (IF f < 100 THEN "0" ELSE "") \o NatToStr(f \div 10)
        ELSE whole \o "." \o (IF f < 10 THEN "00" ELSE IF f < 100 THEN "0" ELSE "") \o NatToStr(f)

\* str(val), val not None
StrOf(v) ==
    IF v.t = "str" THEN v.s
    ELSE IF v.t = "int" THEN NatToStr(v.val)
    ELSE FloatRepr(v.milli)

extract_typed_value(row, columns, key, typ) ==
    LET hits == {i \in 1..Len(columns) : Lower(columns[i]) = Lower(key)}
        first == IF hits = {} THEN Null
                 ELSE row[CHOOSE i \in hits : \A j \in hits : i <= j]
        val == IF first = Null THEN RowGet(row, columns, key) ELSE first
    IN  IF typ = "int"
        THEN IF val # Null /\ FloatOk(val) THEN IntVal(ToInt(val)) ELSE IntVal(0)
        ELSE IF typ = "float"
        THEN IF val # Null /\ FloatOk(val) THEN FloatVal(ToFloat2(val)) ELSE FloatVal(0)
        ELSE IF val # Null THEN StrVal(StrOf(val)) ELSE StrVal("")

\* the first cell of row 0, in column order, that float() accepts
FirstNumeric(rows, columns) ==
    LET hits == {i \in 1..Len(columns) :
                    RowGet(rows[1], columns, columns[i]) # Null
                    /\ FloatOk(RowGet(rows[1], columns, columns[i]))}
    IN  IF hits = {} THEN Null
        ELSE RowGet(rows[1], columns, columns[CHOOSE i \in hits : \A j \in hits : i <= j])

extract_int(rows, columns) ==
    IF rows = <<>> \/ columns = <<>> THEN IntVal(0)
    ELSE IF FirstNumeric(rows, columns) = Null THEN IntVal(0)
    ELSE IntVal(ToInt(FirstNumeric(rows, columns)))

extract_float(rows, columns) ==
    IF rows = <<>> \/ columns = <<>> THEN FloatVal(0)
    ELSE IF FirstNumeric(rows, columns) = Null THEN FloatVal(0)
    ELSE FloatVal(ToFloat2(FirstNumeric(rows, columns)))

\* a default that leaves every field None
TypeDefaultNone(typ) == NoneVal

\* the zero value of a declared field type
TypeDefault(typ) ==
    IF typ = "int" THEN IntVal(0)
    ELSE IF typ = "float" THEN FloatVal(0)
    ELSE StrVal("")

\* obj = {}; obj[key] = val for each (key, typ), vals[i] being the value of the
\* i-th pair: a repeated key keeps its first position and its last value
BuildObj(key_types, vals) ==
    LET n == Len(key_types)
        firsts == {i \in 1..n : \A j \in 1..(i - 1) : key_types[j][1] # key_types[i][1]}
        last(i) == CHOOSE j \in i..n :
                      /\ key_types[j][1] = key_types[i][1]
                      /\ \A k \in (j + 1)..n : key_types[k][1] # key_types[i][1]
        ord == [i \in 1..Cardinality(firsts) |->
                  CHOOSE x \in firsts : Cardinality({y \in firsts : y < x}) = i - 1]
    IN  ObjVal([i \in 1..Len(ord) |-> key_types[ord[i]][1]],
               [i \in 1..Len(ord) |-> vals[last(ord[i])]])

\* _extract_object reading the last row
extract_object_last_row(rows, columns, format_hint) ==
    LET inner == Strip(StripChars(format_hint, "{}"))
        key_types == parse_format_spec(inner)
    IN  IF rows # <<>>
        THEN BuildObj(key_types,
                      [i \in 1..Len(key_types) |->
                          extract_typed_value(rows[Len(rows)], columns, key_types[i][1], key_types[i][2])])
        ELSE BuildObj(key_types, [i \in 1..Len(key_types) |-> TypeDefault(key_types[i][2])])

extract_object(rows, columns, format_hint) ==
    LET inner == Strip(StripChars(format_hint, "{}"))
        key_types == parse_format_spec(inner)
    IN  IF rows # <<>>
        THEN BuildObj(key_types,
                      [i \in 1..Len(key_types) |->
                          extract_typed_value(rows[1], columns, key_types[i][1], key_types[i][2])])
        ELSE BuildObj(key_types, [i \in 1..Len(key_types) |-> TypeDefault(key_types[i][2])])

\* str(r) of a row dict is not modelled beyond being a text
RowStr(row) == StrVal("row")

extract_list(rows, columns, format_hint) ==
    LET inner == Strip(Slice(format_hint, Len("list[") + 1, Len(format_hint) - 1))
    IN  IF ~StartsWith(inner, "{")
        THEN ListVal([i \in 1..Len(rows) |-> RowStr(rows[i])])
        ELSE LET key_types == parse_format_spec(Strip(StripChars(inner, "{}")))
             IN  ListVal([r \in 1..Len(rows) |->
                            BuildObj(key_types,
                                     [i \in 1..Len(key_types) |->
                                         extract_typed_value(rows[r], columns,
                                                             key_types[i][1], key_types[i][2])])])

RECURSIVE JoinComma(_)
\* ", ".join(keys)
JoinComma(keys) ==
    IF keys = <<>> THEN ""
    ELSE IF Len(keys) = 1 THEN keys[1]
    ELSE keys[1] \o ", " \o JoinComma(Tail(keys))

build_explanation(final_answer, row_count, repaired) ==
    IF final_answer.kind = "list"
    THEN "Extracted " \o NatToStr(Len(final_answer.items)) \o " results from database."
    ELSE IF final_answer.kind = "obj"
    THEN "Retrieved object with fields: "
         \o (IF final_answer.keys # <<>> THEN JoinComma(final_answer.keys) ELSE "no fields")
         \o "."
    ELSE IF final_answer.kind \in {"int", "float"}
    THEN "Computed scalar value from " \o NatToStr(row_count) \o " database rows."
    ELSE "Result synthesized from query output."

\* The confidence heuristic, in hundredths.
ConfBase == 30
ConfRows == 40
ConfSql == 20
ConfNoRepair == 10
ConfMin == 10
ConfMax == 99
SqlMinLen == 20

Min(a, b) == IF a <= b THEN a ELSE b
Max(a, b) == IF a >= b THEN a ELSE b

\* the heuristic without its clamp
confidence_unclamped(rows, sql, repaired) ==
    ConfBase + (IF rows # <<>> THEN ConfRows ELSE 0)
             + (IF sql # "" /\ Len(sql) > SqlMinLen THEN ConfSql ELSE 0)
             + (IF repaired = 0 THEN ConfNoRepair ELSE 0)

\* the heuristic without the bonus for an unrepaired query
confidence_without_bonus(rows, sql, repaired) ==
    Min(ConfMax, Max(ConfMin,
        ConfBase + (IF rows # <<>> THEN ConfRows ELSE 0)
                 + (IF sql # "" /\ Len(sql) > SqlMinLen THEN ConfSql ELSE 0)))

\* round(min(0.99, max(0.1, conf)), 2), in hundredths
confidence(rows, sql, repaired) ==
    LET c1 == ConfBase + (IF rows # <<>> THEN ConfRows ELSE 0)
        c2 == c1 + (IF sql # "" /\ Len(sql) > SqlMinLen THEN ConfSql ELSE 0)
        c3 == c2 + (IF repaired = 0 THEN ConfNoRepair ELSE 0)
    IN  Min(ConfMax, Max(ConfMin, c3))

\* the typed answer of synthesize, by the shape of the hint
synth_answer(rows, columns, format_hint) ==
    LET fh == Strip(format_hint)
    IN  IF fh = "int" THEN extract_int(rows, columns)
        ELSE IF fh = "float" THEN extract_float(rows, columns)
        ELSE IF StartsWith(fh, "{") /\ Contains(fh, ":") THEN extract_object(rows, columns, fh)
        ELSE IF StartsWith(fh, "list[") THEN extract_list(rows, columns, fh)
        ELSE ListVal(rows)

synthesize(rows, columns, format_hint, tables_used, doc_chunk_ids, sql, repaired) ==
    LET final_answer == synth_answer(rows, columns, format_hint)
    IN  [final_answer |-> final_answer,
         citations |-> SortedSeqOf(SeqToSet(tables_used) \cup SeqToSet(doc_chunk_ids)),
         confidence |-> confidence(rows, sql, repaired),
         explanation |-> build_explanation(final_answer, Len(rows), repaired)]

(***************************************************************************)
(* Planner (dspy_signatures.py).  An optional text of the plan is NoneVal  *)
(* (None) or StrVal(text).                                                 *)
(***************************************************************************)

\* DATE_RE = (\d{4}-\d{2}-\d{2}) matches at position i of s
IsDateAt(s, i) ==
    /\ i + 9 <= Len(s)
    /\ \A k \in {0, 1, 2, 3, 5, 6, 8, 9} : IsDigit(CharAt(s, i + k))
    /\ CharAt(s, i + 4) = "-"
    /\ CharAt(s, i + 7) = "-"

RECURSIVE DatesFrom(_, _, _)
\* the matches among the positions hits at or after position i, left to
\* right, none overlapping another
DatesFrom(s, hits, i) ==
    LET rest == {h \in hits : h >= i}
        h0 == CHOOSE h \in rest : \A g \in rest : h <= g
    IN  IF rest = {} THEN <<>>
        ELSE <<Slice(s, h0, h0 + 9)>> \o DatesFrom(s, hits, h0 + 10)

\* DATE_RE.findall(s) from position i on
FindDates(s, i) == DatesFrom(s, {h \in 1..Len(s) : IsDateAt(s, h)}, i)

category_names ==
    {"Beverages", "Condiments", "Confections", "Dairy Products", "Grains/Cereals",
     "Meat/Poultry", "Produce", "Seafood"}

\* \w of the regular expressions
IsWordChar(c) == c \in WordCharSet

\* \b holds between positions i - 1 and i of s
IsBoundary(s, i) ==
    LET before == i > 1 /\ IsWordChar(CharAt(s, i - 1))
        after == i <= Len(s) /\ IsWordChar(CharAt(s, i))
    IN  before # after

\* the texts CATEGORY_RE (\b(name|...)\b, ignoring case) matches in s, each as
\* it is written in s
CategoryMatches(s) ==
    LET l == Lower(s)
        at(c) == {i \in 1..(Len(s) - Len(c) + 1) :
                    /\ Slice(l, i, i + Len(c) - 1) = Lower(c)
                    /\ IsBoundary(s, i)
                    /\ IsBoundary(s, i + Len(c))}
    IN  UNION {{Slice(s, i, i + Len(c) - 1) : i \in at(c)} : c \in category_names}

\* the keys of YEAR_MAPPING that are years (lines 102-105)
YearMappingYears ==
    {"1997", "2012", "2013", "2014", "2015", "2016", "2017", "2018", "2019", "2020",
     "2021", "2022", "2023"}

\* YEAR_MAPPING (lines 99-106)
YearMapping(key) ==
    IF key = "1997_summer" THEN "2013"
    ELSE IF key = "1997_winter" THEN "2017"
    ELSE IF key = "1997" THEN "2013"
    ELSE key

PlanDates(question, doc_text) ==
    LET ql == Lower(question)
        dates == FindDates(doc_text, 1)
    IN  IF Contains(ql, "summer 1997") \/ Contains(ql, "summer beverages 1997")
        THEN <<StrVal(YearMapping("1997_summer") \o "-06-01"), StrVal(YearMapping("1997_summer") \o "-06-30")>>
        ELSE IF Contains(ql, "winter 1997") \/ Contains(ql, "winter classics 1997")
        THEN <<StrVal(YearMapping("1997_winter") \o "-12-01"), StrVal(YearMapping("1997_winter") \o "-12-31")>>
        ELSE IF Contains(ql, "1997")
        THEN <<StrVal(YearMapping("1997") \o "-01-01"), StrVal(YearMapping("1997") \o "-12-31")>>
        ELSE IF Len(dates) >= 2 THEN <<StrVal(dates[1]), StrVal(dates[2])>>
        ELSE IF Len(dates) = 1 THEN <<StrVal(dates[1]), StrVal(dates[1])>>
        ELSE <<NoneVal, NoneVal>>

PlanKpi(question) ==
    LET q == Lower(question)
    IN  IF Contains(q, "average order value") \/ Contains(q, "aov") THEN StrVal("AOV")
        ELSE IF Contains(q, "gross margin") \/ (Contains(q, "margin") /\ Contains(q, "customer"))
        THEN StrVal("MARGIN")
        ELSE IF Contains(q, "revenue") \/ Contains(q, "total revenue") THEN StrVal("REVENUE")
        ELSE IF Contains(q, "quantity") \/ Contains(q, "sold") THEN StrVal("QUANTITY")
        ELSE NoneVal

\* Planner.plan(question, retrieved_chunks)
plan_of(question, retrieved_chunks) ==
    LET doc_text == JoinSpace([i \in 1..Len(retrieved_chunks) |-> retrieved_chunks[i].text])
        combined_text == question \o " " \o doc_text
        d == PlanDates(question, doc_text)
    IN  [date_from |-> d[1],
         date_to |-> d[2],
         categories |-> SortedSeqOf(CategoryMatches(combined_text)),
         kpi_hint |-> PlanKpi(question)]

(***************************************************************************)
(* NL2SQL (dspy_signatures.py): intent matching and the query templates.   *)
(***************************************************************************)

\* Python truthiness of an optional text
Truthy(x) == x.kind = "str" /\ x.s # ""

tmpl_top3_products(plan) ==
    "SELECT p.ProductName as product, "
    \o "ROUND(SUM(od.UnitPrice * od.Quantity * (1 - od.Discount)), 2) as revenue "
    \o "FROM [Order Details] od "
    \o "JOIN Products p ON p.ProductID = od.ProductID "
    \o "GROUP BY p.ProductID "
    \o "ORDER BY revenue DESC "
    \o "LIMIT 3;"

\* the date filter shared by the templates, after the keyword kw (WHERE or AND)
DateFilter(plan, kw) ==
    IF Truthy(plan.date_from) /\ Truthy(plan.date_to)
    THEN kw \o " o.OrderDate BETWEEN '" \o plan.date_from.s \o "' AND '" \o plan.date_to.s \o "'"
    ELSE IF Truthy(plan.date_from)
    THEN kw \o " o.OrderDate >= '" \o plan.date_from.s \o "'"
    ELSE ""

tmpl_aov_date_range(plan) ==
    "SELECT ROUND( "
    \o "SUM(od.UnitPrice * od.Quantity * (1 - od.Discount)) * 1.0 / NULLIF(COUNT(DISTINCT o.OrderID), 0), "
    \o "2) as aov "
    \o "FROM [Order Details] od "
    \o "JOIN Orders o ON o.OrderID = od.OrderID "
    \o DateFilter(plan, "WHERE") \o ";"

tmpl_category_revenue(plan) ==
    LET category == IF plan.categories # <<>> THEN plan.categories[1] ELSE "Beverages"
    IN  "SELECT ROUND(SUM(od.UnitPrice * od.Quantity * (1 - od.Discount)), 2) as revenue "
        \o "FROM [Order Details] od "
        \o "JOIN Orders o ON o.OrderID = od.OrderID "
        \o "JOIN Products p ON p.ProductID = od.ProductID "
        \o "JOIN Categories c ON c.CategoryID = p.CategoryID "
        \o "WHERE c.CategoryName = '" \o category \o "' "
        \o DateFilter(plan, "AND") \o ";"

tmpl_top_category_qty(plan) ==
    "SELECT c.CategoryName as category, SUM(od.Quantity) as quantity "
    \o "FROM [Order Details] od "
    \o "JOIN Orders o ON o.OrderID = od.OrderID "
    \o "JOIN Products p ON p.ProductID = od.ProductID "
    \o "JOIN Categories c ON c.CategoryID = p.CategoryID "
    \o DateFilter(plan, "WHERE") \o " "
    \o "GROUP BY c.CategoryID "
    \o "ORDER BY quantity DESC LIMIT 1;"

tmpl_best_customer_margin_year(plan) ==
    LET year == IF Truthy(plan.date_from) THEN Slice(plan.date_from.s, 1, 4) ELSE "1997"
    IN  "SELECT cu.CompanyName as customer, "
        \o "ROUND(SUM((od.UnitPrice * (1 - 0.7)) * od.Quantity * (1 - od.Discount)), 2) as margin "
        \o "FROM [Order Details] od "
        \o "JOIN Orders o ON o.OrderID = od.OrderID "
        \o "JOIN Customers cu ON cu.CustomerID = o.CustomerID "
        \o "WHERE strftime('%Y', o.OrderDate) = '" \o year \o "' "
        \o "GROUP BY cu.CustomerID "
        \o "ORDER BY margin DESC LIMIT 1;"

\* _intent_match without its last return: a question no rule matches gets no intent
intent_match_without_default(question) ==
    LET q == Lower(question)
    IN  IF Contains(q, "top 3 products") /\ Contains(q, "revenue") THEN "top3_products_revenue"
        ELSE IF (Contains(q, "average order value") \/ Contains(q, "aov"))
                /\ (Contains(q, "during") \/ Contains(q, "1997")) THEN "aov_date_range"
        ELSE IF Contains(q, "category") /\ Contains(q, "highest total quantity")
        THEN "top_category_qty_date_range"
        ELSE IF Contains(q, "total revenue") /\ Contains(q, "beverages")
                /\ (Contains(q, "summer") \/ Contains(q, "1997")) THEN "category_revenue_date_range"
        ELSE IF Contains(q, "top customer") /\ Contains(q, "margin") /\ Contains(q, "1997")
        THEN "best_customer_margin_year"
        ELSE IF Contains(q, "margin") THEN "best_customer_margin_year"
        ELSE IF Contains(q, "quantity") THEN "top_category_qty_date_range"
        ELSE IF Contains(q, "revenue") /\ ~Contains(q, "category") THEN "top3_products_revenue"
        ELSE IF Contains(q, "aov") \/ Contains(q, "average order value") THEN "aov_date_range"
        ELSE "none"

intent_match(question) ==
    LET q == Lower(question)
    IN  IF Contains(q, "top 3 products") /\ Contains(q, "revenue") THEN "top3_products_revenue"
        ELSE IF (Contains(q, "average order value") \/ Contains(q, "aov"))
                /\ (Contains(q, "during") \/ Contains(q, "1997")) THEN "aov_date_range"
        ELSE IF Contains(q, "category") /\ Contains(q, "highest total quantity")
        THEN "top_category_qty_date_range"
        ELSE IF Contains(q, "total revenue") /\ Contains(q, "beverages")
                /\ (Contains(q, "summer") \/ Contains(q, "1997")) THEN "category_revenue_date_range"
        ELSE IF Contains(q, "top customer") /\ Contains(q, "margin") /\ Contains(q, "1997")
        THEN "best_customer_margin_year"
        ELSE IF Contains(q, "margin") THEN "best_customer_margin_year"
        ELSE IF Contains(q, "quantity") THEN "top_category_qty_date_range"
        ELSE IF Contains(q, "revenue") /\ ~Contains(q, "category") THEN "top3_products_revenue"
        ELSE IF Contains(q, "aov") \/ Contains(q, "average order value") THEN "aov_date_range"
        ELSE "top3_products_revenue"

\* the template the catalog binds to an intent (_handcrafted_training)
TemplateOf(intent, plan) ==
    IF intent = "top3_products_revenue" THEN tmpl_top3_products(plan)
    ELSE IF intent = "aov_date_range" THEN tmpl_aov_date_range(plan)
    ELSE IF intent = "category_revenue_date_range" THEN tmpl_category_revenue(plan)
    ELSE IF intent = "top_category_qty_date_range" THEN tmpl_top_category_qty(plan)
    ELSE tmpl_best_customer_margin_year(plan)

\* the intents of the templates list (_bootstrap_train, lines 386-390)
template_intents ==
    {"top3_products_revenue", "aov_date_range", "category_revenue_date_range",
     "top_category_qty_date_range", "best_customer_margin_year"}

\* NL2SQL.generate: meta["intent"] of the (sql, meta) pair
generate_intent(question) ==
    IF intent_match(question) \in template_intents THEN intent_match(question) ELSE "fallback"

\* NL2SQL.generate: the query string of the (sql, meta) pair
generate(question, plan) ==
    LET sql == TemplateOf(intent_match(question), plan)
    IN  IF ~EndsWith(Strip(sql), ";") THEN Strip(sql) \o ";" ELSE sql

(***************************************************************************)
(* HybridAgent helpers (graph_hybrid.py).                                  *)
(***************************************************************************)

max_retries == 2
retrieve_k == 5

\* only values of a numeric type count, not texts that read as numbers
is_number_typed(v) == v # Null /\ v.t \in {"int", "float"}

is_number(v) == v # Null /\ FloatOk(v)

validate_shape(rows, cols, format_hint) ==
    LET fh == Strip(format_hint)
    IN  IF fh \in {"int", "float"}
        THEN /\ rows # <<>>
             /\ cols # <<>>
             /\ \E i \in 1..Len(cols) : is_number(RowGet(rows[1], cols, cols[i]))
        ELSE IF StartsWith(fh, "{") THEN rows # <<>>
        ELSE TRUE

RECURSIVE RStripChars(_, _)
\* s.rstrip(chars)
RStripChars(s, chars) ==
    IF s # "" /\ Contains(chars, CharAt(s, Len(s))) THEN RStripChars(Slice(s, 1, Len(s) - 1), chars)
    ELSE s

\* the wrap under a SUM aggregate
wrap_scalar_sum(sql, format_hint) ==
    LET agg == IF format_hint = "float" THEN "ROUND(SUM(val), 2)" ELSE "ROUND(SUM(val))"
    IN  "SELECT " \o agg \o " as val FROM (" \o RStripChars(sql, ";") \o ") as sub;"

wrap_scalar(sql, format_hint) ==
    LET agg == IF format_hint = "float" THEN "ROUND(AVG(val), 2)" ELSE "ROUND(AVG(val))"
    IN  "SELECT " \o agg \o " as val FROM (" \o RStripChars(sql, ";") \o ") as sub;"

RECURSIVE ReplaceAll(_, _, _)
\* s.replace(old, new), old not empty
ReplaceAll(s, old, new) ==
    LET i == Find(s, old, 1)
    IN  IF i = 0 THEN s
        ELSE Slice(s, 1, i - 1) \o new \o ReplaceAll(Slice(s, i + Len(old), Len(s)), old, new)

\* sql with a terminator ensured
EnsureSemicolon(sql) == IF ~EndsWith(Strip(sql), ";") THEN Strip(sql) \o ";" ELSE sql

simple_repair(sql) ==
    LET r1 == ReplaceAll(sql, "Order Details", "\"Order Details\"")
        r2 == IF Contains(r1, "JOIN Products p ON") /\ ~Contains(r1, "Products p")
              THEN ReplaceAll(r1, "JOIN Products ON", "JOIN Products p ON")
              ELSE r1
    IN  EnsureSemicolon(r2)

table_candidates ==
    <<"Orders", "Order Details", "Products", "Customers", "Categories", "Suppliers",
      "orders", "order_items", "products", "customers">>

\* mapping.get(c.lower(), c)
CanonicalTable(c) ==
    LET l == Lower(c)
    IN  IF l = "orders" THEN "Orders"
        ELSE IF l \in {"order details", "order_items"} THEN "Order Details"
        ELSE IF l = "products" THEN "Products"
        ELSE IF l = "customers" THEN "Customers"
        ELSE IF l = "categories" THEN "Categories"
        ELSE IF l = "suppliers" THEN "Suppliers"
        ELSE c

extract_tables_from_sql(sql) ==
    LET s == Lower(sql)
    IN  IF sql = "" THEN <<>>
        ELSE SortedSeqOf({CanonicalTable(table_candidates[i]) : i \in
                            {j \in 1..Len(table_candidates) :
                                Contains(s, Lower(table_candidates[j]))}})

\* (\d{1,3})\s*days, ignoring case, matches at position i of s with its digits
\* ending at position e - 1: after a leftmost search the group is the digit run
\* that starts at i, at most three digits long, followed by blanks and "days"
RECURSIVE SkipSpaces(_, _)
SkipSpaces(s, i) == IF i <= Len(s) /\ IsSpace(CharAt(s, i)) THEN SkipSpaces(s, i + 1) ELSE i

RECURSIVE DigitRunEnd(_, _)
\* the position after the digit run that starts at i
DigitRunEnd(s, i) == IF i <= Len(s) /\ IsDigit(CharAt(s, i)) THEN DigitRunEnd(s, i + 1) ELSE i

DaysMatchAt(s, i) ==
    LET e == DigitRunEnd(s, i)
        d == SkipSpaces(s, e)
    IN  /\ e > i
        /\ e - i <= 3
        /\ Lower(Slice(s, d, d + 3)) = "days"

\* the group of the leftmost match of (\d{1,3})\s*days at or after position
\* from, "" when there is no match
DaysGroup(s, from) ==
    LET hits == {i \in from..Len(s) : DaysMatchAt(s, i)}
        i0 == CHOOSE i \in hits : \A j \in hits : i <= j
    IN  IF hits = {} THEN "" ELSE Slice(s, i0, DigitRunEnd(s, i0) - 1)

\* the group of Beverages.*?unopened.*?:?\s*(\d{1,3})\s*days (ignoring case,
\* dot matching everything), "" when there is no match
BeveragesGroup(s) ==
    LET l == Lower(s)
        b == Find(l, "beverages", 1)
        u == IF b = 0 THEN 0 ELSE Find(l, "unopened", b + Len("beverages"))
    IN  IF u = 0 THEN "" ELSE DaysGroup(s, u + Len("unopened"))

RECURSIVE FirstDigit(_, _)
\* the position of the first digit of s at or after i, 0 when there is none
FirstDigit(s, i) ==
    IF i > Len(s) THEN 0 ELSE IF IsDigit(CharAt(s, i)) THEN i ELSE FirstDigit(s, i + 1)

\* float(m.group(1)) for the first match m of (\d+\.\d+|\d+) in s, in
\* hundredths; the digits after the second decimal are dropped
FirstNumberCenti(s) ==
    LET i == FirstDigit(s, 1)
        e == DigitRunEnd(s, i)
        f == IF CharAt(s, e) = "." THEN DigitRunEnd(s, e + 1) ELSE e + 1
        frac == IF f > e + 1 THEN Slice(s, e + 1, Min(f - 1, e + 2)) ELSE ""
    IN  100 * DigitsToNat(Slice(s, i, e - 1))
        + (IF Len(frac) = 2 THEN DigitsToNat(frac)
           ELSE IF Len(frac) = 1 THEN 10 * DigitsToNat(frac) ELSE 0)

\* Python truthiness of an answer value
AnswerTruthy(v) ==
    IF v.kind = "int" THEN v.val # 0
    ELSE IF v.kind = "float" THEN v.centi # 0
    ELSE IF v.kind = "obj" THEN v.keys # <<>>
    ELSE IF v.kind = "list" THEN v.items # <<>>
    ELSE IF v.kind = "str" THEN v.s # ""
    ELSE FALSE

\* the reference-only answer read from the first day count alone
rag_answer_first_days(format_hint, combined) ==
    LET fh == Strip(format_hint)
        days == DaysGroup(combined, 1)
    IN  IF fh = "int" THEN IntVal(IF days # "" THEN DigitsToNat(days) ELSE 14)
        ELSE IF fh = "float"
        THEN FloatVal(IF FirstDigit(combined, 1) # 0 THEN FirstNumberCenti(combined) ELSE 0)
        ELSE IF StartsWith(fh, "{") THEN ObjVal(<<>>, <<>>)
        ELSE IF StartsWith(fh, "list[") THEN ListVal(<<>>)
        ELSE StrVal(Slice(combined, 1, Min(500, Len(combined))))

\* the reference-only answer of the hint (graph_hybrid.py lines 376-393)
rag_answer(format_hint, combined) ==
    LET fh == Strip(format_hint)
        days == IF BeveragesGroup(combined) # "" THEN BeveragesGroup(combined)
                ELSE DaysGroup(combined, 1)
    IN  IF fh = "int" THEN IntVal(IF days # "" THEN DigitsToNat(days) ELSE 14)
        ELSE IF fh = "float"
        THEN FloatVal(IF FirstDigit(combined, 1) # 0 THEN FirstNumberCenti(combined) ELSE 0)
        ELSE IF StartsWith(fh, "{") THEN ObjVal(<<>>, <<>>)
        ELSE IF StartsWith(fh, "list[") THEN ListVal(<<>>)
        ELSE StrVal(Slice(combined, 1, Min(500, Len(combined))))

(***************************************************************************)
(* The environment: reference corpora, retrieval rankings, questions,      *)
(* hints, and the results the Query Service can return.                    *)
(***************************************************************************)

Chunk(id, text) == [chunk_id |-> id, text |-> text]

\* Chunks in index order (files sorted by name, then position in the file).
CorpusPolicy ==
    << Chunk("kpi_definitions::chunk0", "Average Order Value (AOV) is revenue per order."),
       Chunk("marketing_calendar::chunk0", "Summer Beverages 1997: 1997-06-01 to 1997-06-30"),
       Chunk("product_policy::chunk0",
             "Perishables (Produce, Seafood): 3 days. Beverages unopened: 14 days; opened: no returns.") >>

CorpusPlain ==
    << Chunk("faq::chunk0", "Refunds are issued within 5 days."),
       Chunk("product_policy::chunk0", "All goods may be returned within 14 days.") >>

Corpora == {CorpusPolicy, CorpusPlain}

\* The largest score a ranking gives a chunk.
MaxScore == 2

\* np.argsort(-scores) then the first k: indices by descending score, equal
\* scores in index order
Ranking(scores, n, k) ==
    LET before(i, j) == scores[i] > scores[j] \/ (scores[i] = scores[j] /\ i < j)
        pos(i) == Cardinality({j \in 1..n : before(j, i)}) + 1
    IN  [p \in 1..Min(k, n) |-> CHOOSE i \in 1..n : pos(i) = p]

\* Retriever.retrieve(query, k) on a built index whose chunks score as `scores`
retrieve(chunks, scores, k) ==
    LET order == Ranking(scores, Len(chunks), k)
    IN  [p \in 1..Len(order) |-> chunks[order[p]]]

AgentQuestions ==
    {"",
     "What is the return policy for beverages?",
     "Top 3 products by total revenue all-time.",
     "What was the average order value during Winter Classics 1997?",
     "Which category had the highest total quantity sold?",
     "Total revenue from Beverages"}

FormatHints ==
    {"int", "float", "{category:str, quantity:int}", "list[{product:str, revenue:float}]"}

\* What retrieve(question, k=5) can leave in `retrieved`: [] when the call
\* raises, otherwise the chunks of the corpus in some ranking.
Retrievals(chunks) ==
    {<<>>} \cup {retrieve(chunks, scores, retrieve_k) : scores \in [1..Len(chunks) -> 0..MaxScore]}

AllRetrievals == UNION {Retrievals(c) : c \in Corpora}

ChunkIds(got) == [i \in 1..Len(got) |-> got[i].chunk_id]

\* the pairs of A and B, as an enumerated set
Pairs(A, B) == {<<a, b>> : a \in A, b \in B}

\* The pure stages, evaluated once for each input of the model.
RouteTable == [q \in AgentQuestions |-> predict(q)]
PlanTable == [p \in Pairs(AgentQuestions, AllRetrievals) |-> plan_of(p[1], p[2])]
IntentTable == [q \in AgentQuestions |-> generate_intent(q)]
GenerateTable == [p \in Pairs(AgentQuestions, AllRetrievals) |-> Strip(generate(p[1], PlanTable[p]))]

\* SQLiteTool.execute's return value
ExecOk(columns, rows) == [ok |-> TRUE, error |-> "", columns |-> columns, rows |-> rows]
ExecErr(msg) == [ok |-> FALSE, error |-> msg, columns |-> <<>>, rows |-> <<>>]

ExecResults ==
    {ExecErr("no such column: val"),
     ExecOk(<<"aov">>, << <<Null>> >>),
     ExecOk(<<"aov">>, << <<FloatCell(1234567)>> >>),
     ExecOk(<<"category", "quantity">>, << <<TextCell("Beverages"), IntCell(9532)>> >>),
     ExecOk(<<"product", "revenue">>,
            << <<TextCell("Chai"), FloatCell(12788100)>>, <<TextCell("Chang"), FloatCell(9103886)>> >>),
     ExecOk(<<"product", "revenue">>, <<>>)}

(***************************************************************************)
(* HybridAgent.answer as a state machine.  pc is the position in answer(): *)
(* idle (no call in progress), retrieve, generate (loop head), execute and *)
(* repair_execute (a Query Service call is due), synth, done (answer       *)
(* returned `out`), crashed (answer raised).                               *)
(***************************************************************************)

VARIABLES
    pc,
    dbReachable,      \* whether sqlite3.connect(path) succeeds
    genRaises,        \* whether nl2sql.generate and nl2sql.predict raise
    corpus,           \* the chunks of the Retriever's index
    cur_question, cur_format_hint,
    route, retrieved, cur_doc_chunk_ids, cur_plan,
    attempts, cur_repaired, last_err, cur_sql, cur_intent, sql_executed, exec_result,
    synth_in,         \* the arguments of the call to synthesize
    out,              \* the response answer() returns
    sent,             \* the queries passed to execute, in order
    trace_events      \* self.trace.events: the names of the events logged

vars == <<pc, dbReachable, genRaises, corpus, cur_question, cur_format_hint, route, retrieved, cur_doc_chunk_ids,
          cur_plan, attempts, cur_repaired, last_err, cur_sql, cur_intent, sql_executed, exec_result, synth_in, out, sent,
          trace_events>>

NoPlan == [date_from |-> NoneVal, date_to |-> NoneVal, categories |-> <<>>, kpi_hint |-> NoneVal]
NoExec == [ok |-> FALSE, error |-> "", columns |-> <<>>, rows |-> <<>>]
NoSynth == [rows |-> <<>>, columns |-> <<>>, tables_used |-> <<>>, sql |-> "", repaired |-> 0]
NoOut == [final_answer |-> NoneVal, sql |-> "", confidence |-> 0, explanation |-> "", citations |-> <<>>]

\* No call of answer() is in progress: locals hold nothing.
Idle ==
    /\ pc = "idle"
    /\ cur_question = "" /\ cur_format_hint = "" /\ route = "none"
    /\ retrieved = <<>> /\ cur_doc_chunk_ids = <<>> /\ cur_plan = NoPlan
    /\ attempts = 0 /\ cur_repaired = 0 /\ last_err = "" /\ cur_sql = "" /\ cur_intent = "" /\ sql_executed = ""
    /\ exec_result = NoExec /\ synth_in = NoSynth /\ out = NoOut /\ sent = <<>> /\ trace_events = <<>>

Init ==
    /\ dbReachable \in BOOLEAN
    /\ genRaises \in BOOLEAN
    /\ corpus \in Corpora
    /\ Idle

RagConfHit == 60
RagConfMiss == 30

\* the reference-only response citing the tables of the catalog as well
rag_response_citing_tables(hint, chunks, chunk_ids) ==
    LET combined == JoinSpace([i \in 1..Len(chunks) |-> chunks[i].text])
        final_answer == rag_answer(hint, combined)
        synth_meta == synthesize(<<>>, <<>>, hint, <<>>, chunk_ids, "", 0)
    IN  [final_answer |-> final_answer,
         sql |-> "",
         confidence |-> IF AnswerTruthy(final_answer) THEN RagConfHit ELSE RagConfMiss,
         explanation |-> synth_meta.explanation,
         citations |-> chunk_ids \o <<"Orders">>]

\* the response of the reference-only branch (lines 374-406)
rag_response(hint, chunks, chunk_ids) ==
    LET combined == JoinSpace([i \in 1..Len(chunks) |-> chunks[i].text])
        final_answer == rag_answer(hint, combined)
        synth_meta == synthesize(<<>>, <<>>, hint, <<>>, chunk_ids, "", 0)
    IN  [final_answer |-> final_answer,
         sql |-> "",
         confidence |-> IF AnswerTruthy(final_answer) THEN RagConfHit ELSE RagConfMiss,
         explanation |-> synth_meta.explanation,
         citations |-> chunk_ids]

\* the repaired query after a shape failure (lines 456-462)
shape_repair(query, hint) ==
    EnsureSemicolon(IF Strip(hint) \in {"int", "float"} THEN wrap_scalar(query, hint)
                    ELSE simple_repair(query))

\* The queries the loop can hold: the generated ones and their repairs.
GeneratedSqls == {GenerateTable[p] : p \in AgentQuestions \X AllRetrievals}
ShapeRepairTable == [p \in Pairs(GeneratedSqls, FormatHints) |-> shape_repair(p[1], p[2])]
ErrorRepairTable == [g \in GeneratedSqls |-> EnsureSemicolon(simple_repair(g))]
ExecutedSqls == GeneratedSqls \cup {ShapeRepairTable[p] : p \in GeneratedSqls \X FormatHints}
TablesUsedTable == [s \in ExecutedSqls \cup {""} |-> extract_tables_from_sql(s)]

\* What execute can leave in rows and columns: a result's, or nothing.
ExecShapes ==
    {<<r.rows, r.columns>> : r \in ExecResults} \cup {<< <<>>, <<>> >>}
ShapeOkTable == [p \in Pairs(ExecResults, FormatHints) |-> validate_shape(p[1].rows, p[1].columns, p[2])]
TableSeqs == {TablesUsedTable[s] : s \in ExecutedSqls \cup {""}}
ChunkIdSeqs == {ChunkIds(got) : got \in AllRetrievals}
CitationsTable ==
    [p \in Pairs(TableSeqs, ChunkIdSeqs) |-> SortedSeqOf(SeqToSet(p[1]) \cup SeqToSet(p[2]))]
\* synthesize for each rows, columns and hint of the model; the answer and
\* the explanation depend on nothing else
AnswerTable ==
    [p \in Pairs(ExecShapes, FormatHints) |->
        synthesize(p[1][1], p[1][2], p[2], <<>>, <<>>, "", 0)]

\* synthesize(rows, columns, format_hint, tables_used, doc_chunk_ids, sql,
\* repaired) on the inputs of the model, from the tables
synthesize_at(rows, columns, hint, tables_used, chunk_ids, query, repairs) ==
    [AnswerTable[<< <<rows, columns>>, hint>>] EXCEPT
        !.citations = CitationsTable[<<tables_used, chunk_ids>>],
        !.confidence = confidence(rows, query, repairs)]

RetrievalsTable == [c \in Corpora |-> Retrievals(c)]

RagTable == [p \in Pairs(FormatHints, AllRetrievals) |-> rag_response(p[1], p[2], ChunkIds(p[2]))]

\* the response keeping the last query whether or not its execution passed
final_response_keeps_query(result, executed, synth_meta, citations) ==
    [final_answer |-> synth_meta.final_answer,
     sql |-> executed,
     confidence |-> synth_meta.confidence,
     explanation |-> IF synth_meta.explanation # "" THEN synth_meta.explanation
                     ELSE Slice(result.error, 1, Min(200, Len(result.error))),
     citations |-> citations]

\* the response of the structured and combined branches (lines 498-519)
final_response(result, executed, synth_meta, citations) ==
    [final_answer |-> synth_meta.final_answer,
     sql |-> IF result.ok THEN executed ELSE "",
     confidence |-> synth_meta.confidence,
     explanation |-> IF synth_meta.explanation # "" THEN synth_meta.explanation
                     ELSE Slice(result.error, 1, Min(200, Len(result.error))),
     citations |-> citations]

\* a repair is made in the last iteration too
can_repair_in_last(n) == n <= max_retries + 1

\* attempts <= max_retries: a repair may still be made
can_repair(n) == n <= max_retries
\* attempts > max_retries: the loop gives up
out_of_retries(n) == n > max_retries

RECURSIVE QuotedJoin(_)
QuotedJoin(cols) ==
    IF cols = <<>> THEN ""
    ELSE IF Len(cols) = 1 THEN "'" \o cols[1] \o "'"
    ELSE "'" \o cols[1] \o "', " \o QuotedJoin(Tail(cols))

\* the message of a shape failure (line 450); {cols} is the repr of a list of str
invalid_shape_error(hint, cols, rows) ==
    "Invalid shape: expected " \o hint \o " but got columns=[" \o QuotedJoin(cols)
        \o "] rows=" \o NatToStr(Len(rows))

\* a terminal failure that keeps no error text
FailedExec_without_error(err) == [ok |-> FALSE, error |-> "", columns |-> <<>>, rows |-> <<>>]

FailedExec(err) == [ok |-> FALSE, error |-> err, columns |-> <<>>, rows |-> <<>>]


\* answer() without the reset of line 337: the events of the earlier
\* questions stay in the trace
Ask_keeping_trace(q, h) ==
    /\ pc = "idle"
    /\ cur_question' = q
    /\ cur_format_hint' = h
    /\ route' = RouteTable[q]
    /\ pc' = "retrieve"
    /\ trace_events' = trace_events \o <<"start", "route">>
    /\ UNCHANGED <<dbReachable, genRaises, corpus, retrieved, cur_doc_chunk_ids, cur_plan, attempts, cur_repaired,
                   last_err, cur_sql, cur_intent, sql_executed, exec_result, synth_in, out, sent>>

\* answer(qid, question, format_hint) is called: the Router runs (lines 337-348).
Ask(q, h) ==
    /\ pc = "idle"
    /\ cur_question' = q
    /\ cur_format_hint' = h
    /\ route' = RouteTable[q]
    /\ pc' = "retrieve"
    /\ trace_events' = <<"start", "route">>
    /\ UNCHANGED <<dbReachable, genRaises, corpus, retrieved, cur_doc_chunk_ids, cur_plan, attempts, cur_repaired,
                   last_err, cur_sql, cur_intent, sql_executed, exec_result, synth_in, out, sent>>

\* The Retriever is called (lines 350-361), then the Planner and the schema
\* introspection run (lines 363-371); the reference-only branch returns its
\* response (lines 374-406), otherwise the loop state is set up (lines 409-414).
\* A raising Retriever leaves retrieved = [].
Retrieve(got) ==
    /\ pc = "retrieve"
    /\ retrieved' = got
    /\ cur_doc_chunk_ids' = ChunkIds(got)
    /\ cur_plan' = PlanTable[<<cur_question, got>>]
    /\ IF Lower(route) = "rag"
       THEN /\ out' = RagTable[<<cur_format_hint, got>>]
            /\ pc' = "done"
       ELSE /\ out' = out
            /\ pc' = "generate"
    /\ attempts' = 0
    /\ cur_repaired' = 0
    /\ last_err' = ""
    /\ sql_executed' = ""
    /\ exec_result' = NoExec
    /\ trace_events' = trace_events \o <<"retrieve", "plan", "schema">>
                          \o (IF Lower(route) = "rag" THEN <<"rag_only", "answer_rag">> ELSE <<>>)
    /\ UNCHANGED <<dbReachable, genRaises, corpus, cur_question, cur_format_hint, route, cur_sql, cur_intent, synth_in, sent>>

\* an emptiness test that lets the empty query through to the execution
empty_sql_never(sql) == FALSE

\* `if not sql:` (line 431)
empty_sql(sql) == sql = ""

\* The loop head (lines 417-436): the query is generated anew; when generate
\* and predict both raise the query is "" (lines 421-427).
Generate ==
    /\ pc = "generate"
    /\ attempts' = attempts + 1
    /\ LET generated == IF genRaises THEN "" ELSE GenerateTable[<<cur_question, retrieved>>]
       IN  /\ cur_sql' = generated
           /\ cur_intent' = IF genRaises THEN "" ELSE IntentTable[cur_question]
           /\ sql_executed' = generated
           /\ IF empty_sql(generated)
              THEN /\ last_err' = "Empty SQL generated"
                   /\ exec_result' = FailedExec("Empty SQL generated")
                   /\ pc' = "synth"
              ELSE /\ UNCHANGED <<last_err, exec_result>>
                   /\ pc' = "execute"
    /\ trace_events' = trace_events \o <<"nl2sql_generate">>
                          \o (IF empty_sql(cur_sql') THEN <<"empty_sql">> ELSE <<>>)
    /\ UNCHANGED <<dbReachable, genRaises, corpus, cur_question, cur_format_hint, route, retrieved, cur_doc_chunk_ids,
                   cur_plan, cur_repaired, synth_in, out, sent>>

\* the events logged while the result res of execute is handled (lines 447,
\* 451, 463, 485, 491)
exec_events(res, format_hint, attempt) ==
    IF res.ok
    THEN IF ShapeOkTable[<<res, format_hint>>] THEN <<"exec_ok">>
         ELSE IF can_repair(attempt) THEN <<"invalid_shape", "repair_attempt">>
         ELSE <<"invalid_shape">>
    ELSE IF can_repair(attempt) THEN <<"sql_error", "repair_sql">>
         ELSE <<"sql_error">>

\* execute(sql) returns res (line 439) and the result is handled up to the
\* next call or the end of the loop (lines 440-463, 476-496).
Execute(res) ==
    /\ pc = "execute"
    /\ dbReachable
    /\ sent' = Append(sent, cur_sql)
    /\ IF res.ok
       THEN IF ShapeOkTable[<<res, cur_format_hint>>]
            THEN /\ exec_result' = [ok |-> TRUE, error |-> "", columns |-> res.columns, rows |-> res.rows]
                 /\ pc' = "synth"
                 /\ UNCHANGED <<last_err, cur_repaired, cur_sql, cur_intent>>
            ELSE LET err == invalid_shape_error(cur_format_hint, res.columns, res.rows)
                 IN  /\ last_err' = err
                     /\ IF can_repair(attempts)
                        THEN /\ cur_repaired' = cur_repaired + 1
                             /\ cur_sql' = ShapeRepairTable[<<cur_sql, cur_format_hint>>] /\ UNCHANGED cur_intent
                             /\ pc' = "repair_execute"
                             /\ UNCHANGED exec_result
                        ELSE /\ UNCHANGED <<cur_repaired, cur_sql, cur_intent>>
                             /\ IF out_of_retries(attempts)
                                THEN /\ exec_result' = FailedExec(err)
                                     /\ pc' = "synth"
                                ELSE /\ UNCHANGED exec_result
                                     /\ pc' = "generate"
       ELSE /\ last_err' = res.error
            /\ IF can_repair(attempts)
               THEN /\ cur_repaired' = cur_repaired + 1
                    /\ cur_sql' = ErrorRepairTable[cur_sql] /\ UNCHANGED cur_intent
                    /\ pc' = "generate"
                    /\ UNCHANGED exec_result
               ELSE /\ exec_result' = FailedExec(res.error)
                    /\ pc' = "synth"
                    /\ UNCHANGED <<cur_repaired, cur_sql, cur_intent>>
    /\ trace_events' = trace_events \o exec_events(res, cur_format_hint, attempts)
    /\ UNCHANGED <<dbReachable, genRaises, corpus, cur_question, cur_format_hint, route, retrieved, cur_doc_chunk_ids,
                   cur_plan, attempts, sql_executed, synth_in, out>>

\* execute(repaired sql) returns res (line 464) and the result is handled to
\* the end of the iteration (lines 465-481).
RepairExecute(res) ==
    /\ pc = "repair_execute"
    /\ dbReachable
    /\ sent' = Append(sent, cur_sql)
    /\ sql_executed' = cur_sql
    /\ IF res.ok /\ ShapeOkTable[<<res, cur_format_hint>>]
       THEN /\ exec_result' = [ok |-> TRUE, error |-> "", columns |-> res.columns, rows |-> res.rows]
            /\ pc' = "synth"
            /\ UNCHANGED last_err
       ELSE LET err == IF res.ok THEN "Repair did not fix shape" ELSE res.error
            IN  /\ last_err' = err
                /\ IF out_of_retries(attempts)
                   THEN /\ exec_result' = FailedExec(err)
                        /\ pc' = "synth"
                   ELSE /\ UNCHANGED exec_result
                        /\ pc' = "generate"
    /\ UNCHANGED <<trace_events, dbReachable, genRaises, corpus, cur_question, cur_format_hint, route, retrieved, cur_doc_chunk_ids,
                   cur_plan, attempts, cur_repaired, cur_sql, cur_intent, synth_in, out>>

\* execute(sql) raises: SQLiteTool.execute calls connect() outside its try
\* (sqlite_tool.py lines 54-55) and answer() has no handler around the call.
ExecuteRaises ==
    /\ pc \in {"execute", "repair_execute"}
    /\ ~dbReachable
    /\ sent' = Append(sent, cur_sql)
    /\ pc' = "crashed"
    /\ UNCHANGED <<trace_events, dbReachable, genRaises, corpus, cur_question, cur_format_hint, route, retrieved, cur_doc_chunk_ids,
                   cur_plan, attempts, cur_repaired, last_err, cur_sql, cur_intent, sql_executed, exec_result, synth_in, out>>

\* The Synthesizer is called and the response is returned (lines 498-519).
Synthesize ==
    /\ pc = "synth"
    /\ \E tables_used \in {TablesUsedTable[sql_executed]} :
       \E synth_meta \in {synthesize_at(exec_result.rows, exec_result.columns, cur_format_hint,
                                        tables_used, cur_doc_chunk_ids, sql_executed,
                                        cur_repaired)} :
          /\ synth_in' = [rows |-> exec_result.rows, columns |-> exec_result.columns,
                          tables_used |-> tables_used, sql |-> sql_executed,
                          repaired |-> cur_repaired]
          /\ out' = final_response(exec_result, sql_executed, synth_meta,
                                   CitationsTable[<<tables_used, cur_doc_chunk_ids>>])
    /\ pc' = "done"
    /\ trace_events' = Append(trace_events, "final")
    /\ UNCHANGED <<dbReachable, genRaises, corpus, cur_question, cur_format_hint, route, retrieved, cur_doc_chunk_ids,
                   cur_plan, attempts, cur_repaired, last_err, cur_sql, cur_intent, sql_executed, exec_result, sent>>

\* The caller takes the response (or the exception); the next call of
\* answer() starts with fresh locals.  The events of the trace stay in
\* self.trace until the next call resets them (line 337).
Return ==
    /\ pc \in {"done", "crashed"}
    /\ pc' = "idle"
    /\ cur_question' = "" /\ cur_format_hint' = "" /\ route' = "none"
    /\ retrieved' = <<>> /\ cur_doc_chunk_ids' = <<>> /\ cur_plan' = NoPlan
    /\ attempts' = 0 /\ cur_repaired' = 0 /\ last_err' = "" /\ cur_sql' = "" /\ cur_intent' = "" /\ sql_executed' = ""
    /\ exec_result' = NoExec /\ synth_in' = NoSynth /\ out' = NoOut /\ sent' = <<>>
    /\ UNCHANGED <<trace_events, dbReachable, genRaises, corpus>>

Next ==
    \/ \E q \in AgentQuestions, h \in FormatHints : Ask(q, h)
    \/ \E got \in RetrievalsTable[corpus] : Retrieve(got)
    \/ Generate
    \/ \E res \in ExecResults : Execute(res)
    \/ \E res \in ExecResults : RepairExecute(res)
    \/ ExecuteRaises
    \/ Synthesize
    \/ Return

Spec == Init /\ [][Next]_vars

(***************************************************************************)
(* Router.predict on its own: a caller calls predict on a question, and    *)
(* calls it again on the same question.                                    *)
(***************************************************************************)

\* The longest question, in phrases.
MaxPhrases == 2

RouterPhrases ==
    <<"Policy", "return", "return window", "top 3 products", "Revenue", "during",
      "SUMMER", "aov", "margin", "1997", "hello", "during winter">>

RECURSIVE PhraseTexts(_)
\* the texts of at most n phrases joined by blanks
PhraseTexts(n) ==
    IF n = 0 THEN {""}
    ELSE LET shorter == PhraseTexts(n - 1)
         IN  shorter \cup {IF t = "" THEN RouterPhrases[i] ELSE t \o " " \o RouterPhrases[i] :
                             t \in shorter, i \in 1..Len(RouterPhrases)}

RouterInputs == PhraseTexts(MaxPhrases)

\* the locals of answer() hold nothing
NoCall ==
    /\ cur_format_hint = "" /\ retrieved = <<>> /\ cur_doc_chunk_ids = <<>> /\ cur_plan = NoPlan
    /\ attempts = 0 /\ cur_repaired = 0 /\ last_err = "" /\ cur_sql = "" /\ cur_intent = "" /\ sql_executed = ""
    /\ exec_result = NoExec /\ out = NoOut /\ sent = <<>> /\ trace_events = <<>>

RouterInit ==
    /\ pc = "router_ready"
    /\ cur_question \in RouterInputs
    /\ route = "none"
    /\ dbReachable = TRUE
    /\ genRaises = FALSE
    /\ corpus = CorpusPolicy
    /\ synth_in = NoSynth
    /\ NoCall

RouterPredict ==
    /\ pc = "router_ready"
    /\ route' = predict(cur_question)
    /\ pc' = "routed"
    /\ UNCHANGED <<trace_events, dbReachable, genRaises, corpus, cur_question, cur_format_hint, retrieved, cur_doc_chunk_ids,
                   cur_plan, attempts, cur_repaired, last_err, cur_sql, cur_intent, sql_executed, exec_result,
                   synth_in, out, sent>>

RouterPredictAgain ==
    /\ pc = "routed"
    /\ route' = predict(cur_question)
    /\ pc' = "routed_again"
    /\ UNCHANGED <<trace_events, dbReachable, genRaises, corpus, cur_question, cur_format_hint, retrieved, cur_doc_chunk_ids,
                   cur_plan, attempts, cur_repaired, last_err, cur_sql, cur_intent, sql_executed, exec_result,
                   synth_in, out, sent>>

RouterNext == RouterPredict \/ RouterPredictAgain

SpecRouter == RouterInit /\ [][RouterNext]_vars

(***************************************************************************)
(* Synthesizer.synthesize on its own: a caller calls synthesize, and calls *)
(* it again with a larger repair count and every other argument the same.  *)
(***************************************************************************)

\* The largest repair count passed to synthesize.
MaxRepairCount == 2

SynthHints == FormatHints \cup {"{customer:str, margin:float}", "{Product:str, revenue:int}"}
SynthSqls == {"", "SELECT 1;", tmpl_top3_products(NoPlan)}
SynthChunkIds == {<<>>, <<"product_policy::chunk0", "kpi_definitions::chunk0">>}

SynthInit ==
    /\ pc = "synth_ready"
    /\ cur_format_hint \in SynthHints
    /\ cur_doc_chunk_ids \in SynthChunkIds
    /\ \E shape \in ExecShapes, query \in SynthSqls, n \in 0..MaxRepairCount :
          synth_in = [rows |-> shape[1], columns |-> shape[2],
                      tables_used |-> extract_tables_from_sql(query),
                      sql |-> query, repaired |-> n]
    /\ out = NoOut
    /\ dbReachable = TRUE
    /\ genRaises = FALSE
    /\ corpus = CorpusPolicy
    /\ cur_question = "" /\ route = "none" /\ retrieved = <<>> /\ cur_plan = NoPlan
    /\ attempts = 0 /\ cur_repaired = 0 /\ last_err = "" /\ cur_sql = "" /\ cur_intent = "" /\ sql_executed = ""
    /\ exec_result = NoExec /\ sent = <<>> /\ trace_events = <<>>

SynthCall ==
    /\ pc = "synth_ready"
    /\ out' = synthesize(synth_in.rows, synth_in.columns, cur_format_hint, synth_in.tables_used,
                         cur_doc_chunk_ids, synth_in.sql, synth_in.repaired)
    /\ pc' = "synth_done"
    /\ UNCHANGED <<trace_events, dbReachable, genRaises, corpus, cur_question, cur_format_hint, route, retrieved,
                   cur_doc_chunk_ids, cur_plan, attempts, cur_repaired, last_err, cur_sql, cur_intent,
                   sql_executed, exec_result, synth_in, sent>>

SynthCallRepairedMore ==
    /\ pc \in {"synth_done", "synth_again"}
    /\ synth_in.repaired < MaxRepairCount
    /\ synth_in' = [synth_in EXCEPT !.repaired = @ + 1]
    /\ out' = synthesize(synth_in.rows, synth_in.columns, cur_format_hint, synth_in.tables_used,
                         cur_doc_chunk_ids, synth_in.sql, synth_in.repaired + 1)
    /\ pc' = "synth_again"
    /\ UNCHANGED <<trace_events, dbReachable, genRaises, corpus, cur_question, cur_format_hint, route, retrieved,
                   cur_doc_chunk_ids, cur_plan, attempts, cur_repaired, last_err, cur_sql, cur_intent,
                   sql_executed, exec_result, sent>>

SynthNext == SynthCall \/ SynthCallRepairedMore

SpecSynth == SynthInit /\ [][SynthNext]_vars


(***************************************************************************)
(* The claims.                                                             *)
(***************************************************************************)

\* C1: on the structured and combined routes, whatever the Query Service
\* returns, a call of answer() that returns has passed at most 3 queries to
\* execute.
C1_AtMostThreeExecutions ==
    pc = "done" /\ Lower(route) # "rag" => Len(sent) <= 3

\* The fields a hint declares.
DeclaredFields(hint) ==
    IF hint = "{category:str, quantity:int}" THEN {"category", "quantity"}
    ELSE IF hint = "{customer:str, margin:float}" THEN {"customer", "margin"}
    ELSE IF hint = "{Product:str, revenue:int}" THEN {"Product", "revenue"}
    ELSE IF hint = "list[{product:str, revenue:float}]" THEN {"product", "revenue"}
    ELSE {}

HasDeclaredFields(v, hint) ==
    v.kind = "obj" /\ DeclaredFields(hint) \subseteq SeqToSet(v.keys)

\* the value v has the shape the hint asks for
ShapeMatches(v, hint) ==
    IF hint = "int" THEN v.kind = "int"
    ELSE IF hint = "float" THEN v.kind \in {"int", "float"}
    ELSE IF StartsWith(hint, "{") THEN HasDeclaredFields(v, hint)
    ELSE v.kind = "list" /\ \A i \in 1..Len(v.items) : HasDeclaredFields(v.items[i], hint)

\* C2: the final_answer of every response, on every route and on total
\* failure, has the shape of the hint: an integer for int, a number for float,
\* an object with every declared field for a keyed-object hint, a list of
\* such objects for a list hint.
C2_AnswerShapeMatchesHint ==
    pc = "done" => ShapeMatches(out.final_answer, cur_format_hint)

\* C3: the repair count passed to the Synthesizer is at most 2 and the body of
\* the generate/execute loop runs at most 3 times.
C3_RepairAndLoopBounds ==
    /\ cur_repaired <= 2
    /\ synth_in.repaired <= 2
    /\ attempts <= 3

C3_Witness ==
    pc = "done" /\ synth_in.repaired = 2 /\ attempts = 3

\* C4: the confidence of every response lies in [0.1, 0.99] (10 to 99
\* hundredths), on every route.
C4_ConfidenceInRange ==
    pc = "done" => out.confidence >= 10 /\ out.confidence <= 99

C4_Witness ==
    pc = "done" /\ Lower(route) # "rag" /\ synth_in.rows # <<>> /\ synth_in.repaired = 0
        /\ out.confidence = 99

\* C5, as claimed: with every other argument fixed, each increase of the
\* repair count gives a strictly smaller confidence.
C5_ConfidenceStrictlyDecreases ==
    [][pc' = "synth_again" => out'.confidence < out.confidence]_vars

\* C5: with every other argument fixed, the confidence is strictly smaller
\* with one repair than with none, and the same for every repair count from
\* one on.
C5_ConfidenceDropsOnFirstRepairOnly ==
    [][pc' = "synth_again" =>
         IF synth_in.repaired = 0 THEN out'.confidence < out.confidence
         ELSE out'.confidence = out.confidence]_vars

C5_Witness ==
    pc = "synth_again" /\ synth_in.repaired = 2 /\ synth_in.rows # <<>>
        /\ out.confidence = 90

\* sq is in ascending order with no entry twice
StrictlyAscending(sq) == \A i \in 1..(Len(sq) - 1) : StrLess(sq[i], sq[i + 1])

\* C6: the citations of every response are sorted ascending with no
\* duplicate, on the reference-only route as on the others.
C6_CitationsSortedNoDuplicates ==
    pc = "done" => StrictlyAscending(out.citations)

\* C7: predict returns one of rag, sql, hybrid for every text, the empty text
\* included, and a second call on the same text returns the same route.
C7_RouterTotalDeterministic ==
    [][pc' \in {"routed", "routed_again"} =>
         /\ route' \in {"rag", "sql", "hybrid"}
         /\ (pc = "routed" => route' = route)]_vars

C7_Witness ==
    pc = "routed_again" /\ cur_question = "" /\ route = "hybrid"

\* The zero value of each hint.
ZeroAnswer(hint) ==
    IF hint = "int" THEN IntVal(0)
    ELSE IF hint = "float" THEN FloatVal(0)
    ELSE IF hint = "{category:str, quantity:int}"
    THEN ObjVal(<<"category", "quantity">>, <<StrVal(""), IntVal(0)>>)
    ELSE IF hint = "{customer:str, margin:float}"
    THEN ObjVal(<<"customer", "margin">>, <<StrVal(""), FloatVal(0)>>)
    ELSE IF hint = "{Product:str, revenue:int}"
    THEN ObjVal(<<"Product", "revenue">>, <<StrVal(""), IntVal(0)>>)
    ELSE ListVal(<<>>)

\* C8: synthesize called with no rows answers with the zero value of the
\* hint: 0, 0.0, an object with every declared field at the zero of its type,
\* or the empty list.
C8_EmptyRowsGiveZeroValue ==
    pc \in {"synth_done", "synth_again"} /\ synth_in.rows = <<>>
        => out.final_answer = ZeroAnswer(cur_format_hint)

C8_Witness ==
    /\ pc = "synth_done" /\ synth_in.rows = <<>>
    /\ cur_format_hint = "{customer:str, margin:float}"
    /\ out.final_answer = ObjVal(<<"customer", "margin">>, <<StrVal(""), FloatVal(0)>>)

\* C9: answer() never raises on a fault of the Retriever or of the Query
\* Service: every call returns a response.
C9_NoFaultPropagates ==
    pc # "crashed"

\* the question and the retrieved chunks of the scenario
PolicyReturnCase ==
    /\ pc = "done"
    /\ cur_format_hint = "int"
    /\ Contains(cur_question, "policy") /\ Contains(cur_question, "return")
    /\ \E i \in 1..Len(retrieved) : Contains(retrieved[i].text, "14 days")

PolicyReturnAnswer ==
    /\ out.final_answer = IntVal(14)
    /\ Lower(route) = "rag"
    /\ \A i \in 1..Len(out.citations) :
          \E j \in 1..Len(corpus) : out.citations[i] = corpus[j].chunk_id

\* the day count first read from the retrieved chunks: the one after
\* "Beverages ... unopened" when there is one, otherwise the first "N days"
FirstDayCount(chunks) ==
    LET combined == JoinSpace([i \in 1..Len(chunks) |-> chunks[i].text])
    IN  IF BeveragesGroup(combined) # "" THEN BeveragesGroup(combined)
        ELSE DaysGroup(combined, 1)

\* C10, as claimed: a question with "policy" and "return", hint int,
\* retrieved chunks containing "14 days": the answer is 14, the route is
\* reference-only and every citation is a chunk id.
C10_PolicyReturnAnswers14 ==
    PolicyReturnCase => PolicyReturnAnswer

\* C10: as above when, in addition, 14 is the day count first read from the
\* retrieved chunks in retrieval order.
C10_PolicyReturnAnswersFirstDayCount ==
    PolicyReturnCase /\ FirstDayCount(retrieved) = "14" => PolicyReturnAnswer

C10_Witness ==
    PolicyReturnCase /\ corpus = CorpusPlain /\ out.final_answer = IntVal(14)
        /\ out.citations = <<"product_policy::chunk0", "faq::chunk0">>

\* The names of the tables of the dataset.
TableNames == {"Orders", "Order Details", "Products", "Customers", "Categories", "Suppliers"}

\* C11: on the reference-only route the query generator is never called and
\* no query is passed to execute; the query of the response is empty and its
\* citations are chunk ids only, none a table name.
C11_ReferenceOnlyBypassesQuery ==
    pc = "done" /\ Lower(route) = "rag" =>
        /\ attempts = 0 /\ cur_sql = ""
        /\ sent = <<>>
        /\ out.sql = ""
        /\ \A i \in 1..Len(out.citations) :
              /\ out.citations[i] \in {corpus[j].chunk_id : j \in 1..Len(corpus)}
              /\ out.citations[i] \notin TableNames

C11_Witness ==
    pc = "done" /\ Lower(route) = "rag" /\ Len(out.citations) = 3 /\ out.sql = "" /\ sent = <<>>

\* The error texts of the Query Service.
ServiceErrors == {r.error : r \in {x \in ExecResults : ~x.ok}}

\* A query is due after the generated query of the previous iteration was
\* executed and the Query Service reported an error, with a repair left.
RetryAfterError ==
    /\ pc = "execute"
    /\ sent # <<>>
    /\ sent[Len(sent)] \in GeneratedSqls
    /\ last_err \in ServiceErrors

\* C12: after an execution error with a repair left, the next query sent to
\* the Query Service is the structural repair of the failed query.
C12_RetrySendsRepairedQuery ==
    RetryAfterError => cur_sql = EnsureSemicolon(simple_repair(sent[Len(sent)]))

\* w selects an AVG aggregate over q as a subquery
IsAvgWrap(w, q) ==
    /\ Contains(w, "AVG(")
    /\ Contains(w, "FROM (" \o RStripChars(q, ";") \o ")")

ScalarHint == Strip(cur_format_hint) \in {"int", "float"}

\* C13: after a shape failure under a scalar hint with a repair left, the
\* next query sent to the Query Service is the prior query wrapped as a
\* subquery under an AVG aggregate; when its result passes shape validation
\* the loop ends and the rows of that result are given to the Synthesizer.
C13_ScalarShapeRepairWrapsAndFeeds ==
    [][/\ (ScalarHint /\ pc = "execute" /\ pc' = "repair_execute"
              => IsAvgWrap(cur_sql', sent'[Len(sent')]))
       /\ (ScalarHint /\ pc = "repair_execute" => sent' = Append(sent, cur_sql))
       /\ \A res \in ExecResults :
             ScalarHint /\ RepairExecute(res) /\ res.ok /\ ShapeOkTable[<<res, cur_format_hint>>]
                 => pc' = "synth" /\ exec_result'.rows = res.rows
                        /\ exec_result'.columns = res.columns
       /\ (pc = "synth" /\ pc' = "done"
              => synth_in'.rows = exec_result.rows /\ synth_in'.columns = exec_result.columns)
      ]_vars

C13_Witness ==
    /\ pc = "done" /\ cur_format_hint = "float"
    /\ Len(sent) = 2 /\ IsAvgWrap(sent[2], sent[1])
    /\ out.sql = sent[2]
    /\ synth_in.rows # <<>> /\ synth_in.repaired = 1

(***************************************************************************)
(* HybridAgent._validate_shape on its own: a caller validates a result     *)
(* against a hint.                                                         *)
(***************************************************************************)

\* The largest number of rows of a result.
MaxRows == 2

ShapeCells == {Null, IntCell(7), TextCell("n/a"), TextCell("12")}

ShapeInit ==
    /\ pc = "shape_ready"
    /\ cur_format_hint \in SynthHints
    /\ \E n \in 0..MaxRows : \E rows \in [1..n -> [1..2 -> ShapeCells]] :
          exec_result = [ok |-> FALSE, error |-> "", columns |-> <<"a", "b">>, rows |-> rows]
    /\ dbReachable = TRUE
    /\ genRaises = FALSE
    /\ corpus = CorpusPolicy
    /\ cur_question = "" /\ route = "none" /\ retrieved = <<>> /\ cur_doc_chunk_ids = <<>>
    /\ cur_plan = NoPlan /\ attempts = 0 /\ cur_repaired = 0 /\ last_err = "" /\ cur_sql = "" /\ cur_intent = ""
    /\ sql_executed = "" /\ synth_in = NoSynth /\ out = NoOut /\ sent = <<>> /\ trace_events = <<>>

ShapeCheck ==
    /\ pc = "shape_ready"
    /\ exec_result' = [exec_result EXCEPT
                          !.ok = validate_shape(exec_result.rows, exec_result.columns, cur_format_hint)]
    /\ pc' = "shape_checked"
    /\ UNCHANGED <<trace_events, dbReachable, genRaises, corpus, cur_question, cur_format_hint, route, retrieved,
                   cur_doc_chunk_ids, cur_plan, attempts, cur_repaired, last_err, cur_sql, cur_intent,
                   sql_executed, synth_in, out, sent>>

SpecShape == ShapeInit /\ [][ShapeCheck]_vars

\* float() accepts the cell
NumericCell(c) == c.t \in {"int", "float"} \/ (c.t = "str" /\ IsAllDigits(c.s))

HasNumericCell(row) == \E k \in 1..Len(row) : NumericCell(row[k])

\* C14, as claimed: a result passes under a scalar hint exactly when some row
\* has a numeric-convertible cell, under a keyed-object hint exactly when it
\* has a row, and under a list hint always.
C14_ShapeRuleAnyRow ==
    pc = "shape_checked" =>
        exec_result.ok =
            IF cur_format_hint \in {"int", "float"}
            THEN \E r \in 1..Len(exec_result.rows) : HasNumericCell(exec_result.rows[r])
            ELSE IF StartsWith(cur_format_hint, "{") THEN exec_result.rows # <<>>
            ELSE TRUE

\* C14: a result passes under a scalar hint exactly when it has a row and its
\* first row has a numeric-convertible cell, under a keyed-object hint
\* exactly when it has a row, and under a list hint always.
C14_ShapeRuleFirstRow ==
    pc = "shape_checked" =>
        exec_result.ok =
            IF cur_format_hint \in {"int", "float"}
            THEN exec_result.rows # <<>> /\ HasNumericCell(exec_result.rows[1])
            ELSE IF StartsWith(cur_format_hint, "{") THEN exec_result.rows # <<>>
            ELSE TRUE

C14_Witness ==
    /\ pc = "shape_checked" /\ cur_format_hint = "int"
    /\ Len(exec_result.rows) = 2
    /\ ~HasNumericCell(exec_result.rows[1]) /\ HasNumericCell(exec_result.rows[2])
    /\ ~exec_result.ok

\* C15: the query of the response is non-empty exactly when an execution of
\* the loop succeeded and passed shape validation, and it is then the query
\* whose rows are given to the Synthesizer; on total failure it is empty and
\* the Synthesizer is given no rows and no columns.
C15_QueryFieldReflectsPassingExecution ==
    [][/\ \A res \in ExecResults :
             Execute(res) \/ RepairExecute(res) =>
                 /\ exec_result'.ok = (res.ok /\ ShapeOkTable[<<res, cur_format_hint>>])
                 /\ exec_result'.ok =>
                       pc' = "synth" /\ exec_result'.rows = res.rows
                           /\ exec_result'.columns = res.columns
       /\ (pc = "synth" /\ pc' = "done" =>
              /\ (out'.sql # "") = exec_result.ok
              /\ exec_result.ok =>
                    out'.sql = sent[Len(sent)] /\ synth_in'.sql = out'.sql
                        /\ synth_in'.rows = exec_result.rows
                        /\ synth_in'.columns = exec_result.columns
              /\ ~exec_result.ok =>
                    out'.sql = "" /\ synth_in'.rows = <<>> /\ synth_in'.columns = <<>>)
      ]_vars

C15_Witness ==
    /\ pc = "done" /\ Lower(route) # "rag"
    /\ exec_result.ok /\ Len(sent) = 5
    /\ out.sql = sent[5] /\ synth_in.rows = exec_result.rows /\ synth_in.rows # <<>>

\* C16: when every execution of a question ended in a Query Service error and
\* the retry bound is exhausted, the explanation of the response contains the
\* text of that error.
C16_ExplanationCarriesServiceError ==
    /\ pc = "done" /\ Lower(route) # "rag"
    /\ attempts > max_retries /\ sent # <<>>
    /\ ~exec_result.ok /\ exec_result.error \in ServiceErrors
    => Contains(out.explanation, exec_result.error)

\* C17: when the generation step yields an empty query (the generator raising
\* included), no query is sent to the Query Service and no repair is made: the
\* loop is left in its first iteration, the Synthesizer is given empty rows and
\* columns with repair count 0, and the query of the response is empty.
C17_EmptyQuerySkipsExecution ==
    attempts >= 1 /\ cur_sql = "" =>
        /\ pc \in {"synth", "done"}
        /\ attempts = 1 /\ sent = <<>> /\ cur_repaired = 0 /\ sql_executed = ""
        /\ exec_result = FailedExec("Empty SQL generated")
        /\ pc = "done" =>
              /\ synth_in.rows = <<>> /\ synth_in.columns = <<>>
              /\ synth_in.repaired = 0 /\ synth_in.sql = ""
              /\ out.sql = ""

C17_Witness ==
    /\ pc = "done" /\ genRaises /\ Lower(route) # "rag"
    /\ attempts = 1 /\ cur_sql = "" /\ sent = <<>>
    /\ synth_in.rows = <<>> /\ synth_in.repaired = 0 /\ out.sql = ""

\* the tiers a question matches
MatchesRag == TierMatches(rag_only_patterns, Lower(cur_question))
MatchesSql == TierMatches(sql_only_patterns, Lower(cur_question))
MatchesHybrid == TierMatches(hybrid_patterns, Lower(cur_question))
HasAggregateCue == \E kw \in aggregate_keywords : Contains(Lower(cur_question), kw)
HasTemporalCue == \E kw \in temporal_keywords : Contains(Lower(cur_question), kw)

\* C18: predict tries the tiers in the order reference-only, structured-only,
\* combined, fallback, and the first tier that matches decides: a question
\* matching a reference-only pattern is routed rag whatever else it matches,
\* and one matching a structured-only pattern and no reference-only pattern
\* is routed sql even when it matches a combined pattern too.
C18_FirstMatchingTierDecides ==
    pc \in {"routed", "routed_again"} =>
        /\ MatchesRag => route = "rag"
        /\ ~MatchesRag /\ MatchesSql => route = "sql"
        /\ ~MatchesRag /\ ~MatchesSql /\ MatchesHybrid => route = "hybrid"
        /\ ~MatchesRag /\ ~MatchesSql /\ ~MatchesHybrid =>
              route = IF HasAggregateCue /\ ~HasTemporalCue THEN "sql" ELSE "hybrid"

C18_Witness ==
    /\ pc = "routed" /\ ~MatchesRag /\ MatchesSql /\ MatchesHybrid
    /\ cur_question = "top 3 products during winter" /\ route = "sql"

\* C19: a question routed to the structured-only route contains none of the
\* temporal cues during, summer, winter, 1997, date.
C19_SqlRouteHasNoTemporalCue ==
    pc \in {"routed", "routed_again"} /\ route = "sql" => ~HasTemporalCue

(***************************************************************************)
(* Planner.plan on its own: a caller calls plan with a question and the    *)
(* retrieved chunks.                                                       *)
(***************************************************************************)

\* The largest number of chunks passed to plan.
MaxChunks == 2

PlannerQuestions ==
    {"", "Revenue in 2015", "AOV during summer 1997", "winter 1997", "Total in 1997",
     "beverages sold"}

PlannerTexts ==
    {"no dates", "ends 2013-06-30", "2013-06-01 to 2013-06-30", "2013-06-01",
     "from 2013-06-01; 2013-06-01 until 2013-06-30", "Beverages and Seafood"}

PlannerInit ==
    /\ pc = "plan_ready"
    /\ cur_question \in PlannerQuestions
    /\ \E n \in 0..MaxChunks :
          retrieved \in [1..n -> {Chunk("doc::chunk0", t) : t \in PlannerTexts}]
    /\ cur_plan = NoPlan
    /\ dbReachable = TRUE
    /\ genRaises = FALSE
    /\ corpus = CorpusPolicy
    /\ cur_format_hint = "" /\ route = "none" /\ cur_doc_chunk_ids = <<>>
    /\ attempts = 0 /\ cur_repaired = 0 /\ last_err = "" /\ cur_sql = "" /\ cur_intent = "" /\ sql_executed = ""
    /\ exec_result = NoExec /\ synth_in = NoSynth /\ out = NoOut /\ sent = <<>> /\ trace_events = <<>>

PlannerPlan ==
    /\ pc = "plan_ready"
    /\ cur_plan' = plan_of(cur_question, retrieved)
    /\ pc' = "planned"
    /\ UNCHANGED <<trace_events, dbReachable, genRaises, corpus, cur_question, cur_format_hint, route, retrieved,
                   cur_doc_chunk_ids, attempts, cur_repaired, last_err, cur_sql, cur_intent, sql_executed,
                   exec_result, synth_in, out, sent>>

SpecPlanner == PlannerInit /\ [][PlannerPlan]_vars

RECURSIVE Distinct(_)
\* the members of a sequence in the order of their first occurrence
Distinct(s) ==
    IF s = <<>> THEN <<>>
    ELSE LET front == Distinct(SubSeq(s, 1, Len(s) - 1))
         IN  IF s[Len(s)] \in SeqToSet(front) THEN front ELSE Append(front, s[Len(s)])

\* the dates of the text of the retrieved chunks, left to right
FragmentDates ==
    FindDates(JoinSpace([i \in 1..Len(retrieved) |-> retrieved[i].text]), 1)

\* C20: when the question names no year or season of the remapping table, the
\* first two distinct dates of the fragment text are the start and the end of
\* the plan, a single date is both, and with no date both are null.
C20_FirstTwoDistinctDates ==
    pc = "planned" /\ ~Contains(Lower(cur_question), "1997") =>
        LET dates == Distinct(FragmentDates)
        IN  IF Len(dates) >= 2
            THEN cur_plan.date_from = StrVal(dates[1]) /\ cur_plan.date_to = StrVal(dates[2])
            ELSE IF Len(dates) = 1
            THEN cur_plan.date_from = StrVal(dates[1]) /\ cur_plan.date_to = StrVal(dates[1])
            ELSE cur_plan.date_from = NoneVal /\ cur_plan.date_to = NoneVal

\* the question names a season
NamesSeason == Contains(Lower(cur_question), "summer") \/ Contains(Lower(cur_question), "winter")

\* C21: a question that references a year of the year-remapping table without
\* a season gets the full year of the mapped year as its window, and a
\* question that references a mapped season and year gets the window of that
\* pair, whatever dates the retrieved fragments hold.
C21_ListedYearsAreRemapped ==
    pc = "planned" =>
        /\ \A y \in YearMappingYears :
              Contains(Lower(cur_question), y) /\ ~NamesSeason =>
                  /\ cur_plan.date_from = StrVal(YearMapping(y) \o "-01-01")
                  /\ cur_plan.date_to = StrVal(YearMapping(y) \o "-12-31")
        /\ Contains(Lower(cur_question), "summer 1997") =>
              /\ cur_plan.date_from = StrVal(YearMapping("1997_summer") \o "-06-01")
              /\ cur_plan.date_to = StrVal(YearMapping("1997_summer") \o "-06-30")
        /\ Contains(Lower(cur_question), "winter 1997") =>
              /\ cur_plan.date_from = StrVal(YearMapping("1997_winter") \o "-12-01")
              /\ cur_plan.date_to = StrVal(YearMapping("1997_winter") \o "-12-31")

\* C22: the categories of a plan are sorted and without duplicates, each is a
\* name of the category vocabulary, and no category of the vocabulary appears
\* more than once.
C22_CategoriesSortedVocabularyNames ==
    pc = "planned" =>
        /\ StrictlyAscending(cur_plan.categories)
        /\ \A i \in 1..Len(cur_plan.categories) : cur_plan.categories[i] \in category_names
        /\ \A i, j \in 1..Len(cur_plan.categories) :
              Lower(cur_plan.categories[i]) = Lower(cur_plan.categories[j]) => i = j

(***************************************************************************)
(* NL2SQL.generate on its own: a caller calls generate with a question and *)
(* a plan.                                                                 *)
(***************************************************************************)

GenQuestions ==
    RouterInputs \cup
        {"Which category had the highest total quantity sold?",
         "Total revenue from Beverages in summer",
         "top customer by gross margin in 1997",
         "revenue by category",
         "What is the average order value?"}

GenPlans ==
    {NoPlan,
     [NoPlan EXCEPT !.date_from = StrVal("2013-06-01"), !.date_to = StrVal("2013-06-30")],
     [NoPlan EXCEPT !.date_from = StrVal("2017-12-01")],
     [NoPlan EXCEPT !.date_to = StrVal("2017-12-31"), !.categories = <<"Seafood", "seafood">>,
                    !.kpi_hint = StrVal("REVENUE")]}

GenInit ==
    /\ pc = "generate_ready"
    /\ cur_question \in GenQuestions
    /\ cur_plan \in GenPlans
    /\ cur_sql = "" /\ cur_intent = ""
    /\ dbReachable = TRUE
    /\ genRaises = FALSE
    /\ corpus = CorpusPolicy
    /\ cur_format_hint = "" /\ route = "none" /\ retrieved = <<>> /\ cur_doc_chunk_ids = <<>>
    /\ attempts = 0 /\ cur_repaired = 0 /\ last_err = "" /\ sql_executed = ""
    /\ exec_result = NoExec /\ synth_in = NoSynth /\ out = NoOut /\ sent = <<>> /\ trace_events = <<>>

GenCall ==
    /\ pc = "generate_ready"
    /\ cur_sql' = generate(cur_question, cur_plan)
    /\ cur_intent' = generate_intent(cur_question)
    /\ pc' = "generated"
    /\ UNCHANGED <<trace_events, dbReachable, genRaises, corpus, cur_question, cur_format_hint, route, retrieved,
                   cur_doc_chunk_ids, cur_plan, attempts, cur_repaired, last_err, sql_executed,
                   exec_result, synth_in, out, sent>>

SpecGenerate == GenInit /\ [][GenCall]_vars

\* no rule of the intent matcher fires on the question
NoRuleFires ==
    LET q == Lower(cur_question)
    IN  /\ ~Contains(q, "margin") /\ ~Contains(q, "quantity")
        /\ ~Contains(q, "aov") /\ ~Contains(q, "average order value")
        /\ Contains(q, "revenue") => Contains(q, "category") /\ ~Contains(q, "top 3 products")
        /\ ~(Contains(q, "total revenue") /\ Contains(q, "beverages")
                /\ (Contains(q, "summer") \/ Contains(q, "1997")))

\* C23: for every question and every plan, the plan with every field null
\* included, generate returns a non-empty query that ends with the
\* terminator and an intent of the catalog of five intents; when no rule
\* fires the intent is the default one.
C23_GenerateTotal ==
    pc = "generated" =>
        /\ cur_sql # "" /\ EndsWith(cur_sql, ";")
        /\ cur_intent \in {"top3_products_revenue", "aov_date_range", "category_revenue_date_range",
                           "top_category_qty_date_range", "best_customer_margin_year"}
        /\ NoRuleFires => cur_intent = "top3_products_revenue"

C23_Witness ==
    /\ pc = "generated" /\ cur_question = "hello" /\ cur_plan = NoPlan /\ NoRuleFires
    /\ cur_intent = "top3_products_revenue" /\ cur_sql = tmpl_top3_products(NoPlan)

\* the locals of answer() and the response hold nothing of a question
FreshLocals ==
    /\ cur_question = "" /\ cur_format_hint = "" /\ route = "none"
    /\ retrieved = <<>> /\ cur_doc_chunk_ids = <<>> /\ cur_plan = NoPlan
    /\ attempts = 0 /\ cur_repaired = 0 /\ last_err = "" /\ cur_sql = "" /\ cur_intent = ""
    /\ sql_executed = "" /\ exec_result = NoExec /\ synth_in = NoSynth /\ out = NoOut
    /\ sent = <<>>

\* C24: nothing an earlier question left behind influences a later response:
\* between two questions the agent holds no attempt counter, repair counter,
\* last error, query or response of the earlier question, only its trace
\* events, and the next question starts by replacing those, so that it is
\* processed from the state a first question is processed from.
C24_NoStateAcrossQuestions ==
    [][/\ pc' = "idle" => FreshLocals'
       /\ pc = "idle" /\ pc' # "idle" =>
             /\ FreshLocals
             /\ trace_events' = <<"start", "route">>
             /\ route' = predict(cur_question')
             /\ attempts' = 0 /\ cur_repaired' = 0 /\ last_err' = "" /\ sql_executed' = ""
             /\ exec_result' = NoExec /\ sent' = <<>> /\ out' = NoOut
      ]_vars

C24_Witness ==
    /\ pc = "idle" /\ FreshLocals
    /\ Len(trace_events) >= 8 /\ trace_events[Len(trace_events)] = "final"

\* C25: on the reference-only route with hint int the answer is the day count
\* read from the retrieved chunks when the pattern matches, and the int zero
\* value 0 when it matches nowhere, no chunk being retrieved included.
C25_ReferenceIntDegradesToZero ==
    pc = "done" /\ Lower(route) = "rag" /\ Strip(cur_format_hint) = "int" =>
        IF FirstDayCount(retrieved) # ""
        THEN out.final_answer = IntVal(DigitsToNat(FirstDayCount(retrieved)))
        ELSE out.final_answer = IntVal(0)

\* The fields a hint declares, in order, each with its type.
DeclaredPairs(hint) ==
    IF hint = "{category:str, quantity:int}" THEN << <<"category", "str">>, <<"quantity", "int">> >>
    ELSE IF hint = "{customer:str, margin:float}" THEN << <<"customer", "str">>, <<"margin", "float">> >>
    ELSE IF hint = "{Product:str, revenue:int}" THEN << <<"Product", "str">>, <<"revenue", "int">> >>
    ELSE IF hint = "list[{product:str, revenue:float}]"
    THEN << <<"product", "str">>, <<"revenue", "float">> >>
    ELSE <<>>

\* a cell converted to a declared type; NULL and a text that is no number
\* give the zero value of a numeric type
ConvertedCell(cell, typ) ==
    IF cell = Null THEN TypeDefault(typ)
    ELSE IF typ = "int" THEN IF FloatOk(cell) THEN IntVal(ToInt(cell)) ELSE IntVal(0)
    ELSE IF typ = "float" THEN IF FloatOk(cell) THEN FloatVal(ToFloat2(cell)) ELSE FloatVal(0)
    ELSE StrVal(StrOf(cell))

\* the object a row gives under a hint: exactly the declared fields, each from
\* the column of its name, ignoring case
RowObject(row, columns, hint) ==
    LET pairs == DeclaredPairs(hint)
        col(key) == {i \in 1..Len(columns) : Lower(columns[i]) = Lower(key)}
    IN  ObjVal([i \in 1..Len(pairs) |-> pairs[i][1]],
               [i \in 1..Len(pairs) |->
                   IF col(pairs[i][1]) = {} THEN TypeDefault(pairs[i][2])
                   ELSE ConvertedCell(row[CHOOSE c \in col(pairs[i][1]) : TRUE], pairs[i][2])])

\* C26: for a keyed-object hint synthesize builds its object from row 0 only,
\* for a list hint one object for each row in row order; an object has exactly
\* the declared fields, each taken from the column of the same name ignoring
\* case and converted to the declared type, a field without such a column
\* getting the zero value of its type.
C26_ObjectsFollowDeclaredFields ==
    pc \in {"synth_done", "synth_again"} /\ DeclaredPairs(cur_format_hint) # <<>> =>
        IF StartsWith(cur_format_hint, "list[")
        THEN out.final_answer =
                ListVal([r \in 1..Len(synth_in.rows) |->
                            RowObject(synth_in.rows[r], synth_in.columns, cur_format_hint)])
        ELSE synth_in.rows # <<>> =>
                out.final_answer = RowObject(synth_in.rows[1], synth_in.columns, cur_format_hint)

C26_Witness ==
    /\ pc = "synth_done" /\ cur_format_hint = "{Product:str, revenue:int}"
    /\ Len(synth_in.rows) = 2 /\ synth_in.columns = <<"product", "revenue">>
    /\ out.final_answer = ObjVal(<<"Product", "revenue">>, <<StrVal("Chai"), IntVal(12788)>>)

(***************************************************************************)
(* The generate/execute/validate/repair loop on its own, entered as        *)
(* answer() enters it (lines 409-416), under fair scheduling: answer() is  *)
(* sequential code, so a step that can be taken is taken, and a call of    *)
(* the Query Service that is due returns or raises.                        *)
(***************************************************************************)

LoopQuestions ==
    {"Top 3 products by total revenue all-time.", "Total revenue from Beverages"}

LoopInit ==
    /\ pc = "generate"
    /\ dbReachable \in BOOLEAN
    /\ genRaises \in BOOLEAN
    /\ corpus = CorpusPolicy
    /\ cur_question \in LoopQuestions
    /\ cur_format_hint \in FormatHints
    /\ route = RouteTable[cur_question]
    /\ retrieved = <<>> /\ cur_doc_chunk_ids = <<>>
    /\ cur_plan = PlanTable[<<cur_question, retrieved>>]
    /\ attempts = 0 /\ cur_repaired = 0 /\ last_err = "" /\ cur_sql = "" /\ cur_intent = ""
    /\ sql_executed = "" /\ exec_result = NoExec /\ synth_in = NoSynth /\ out = NoOut
    /\ sent = <<>>
    /\ trace_events = <<"start", "route", "retrieve", "plan", "schema">>

LoopNext ==
    \/ Generate
    \/ \E res \in ExecResults : Execute(res)
    \/ \E res \in ExecResults : RepairExecute(res)
    \/ ExecuteRaises
    \/ Synthesize

SpecLoop == LoopInit /\ [][LoopNext]_vars /\ WF_vars(LoopNext)

\* the loop is left for the Synthesizer, with a result that passed validation
\* or with a terminal failure
LoopEnded ==
    /\ pc = "synth"
    /\ \/ exec_result.ok
       \/ ~exec_result.ok /\ exec_result.error # "" /\ exec_result.rows = <<>>

\* C27: when every call of the Query Service returns, the loop terminates:
\* whatever the results, it reaches the Synthesizer with a result that passed
\* shape validation or with a terminal failure (ok false, an error text, no
\* rows).
C27_LoopTerminates ==
    (pc = "generate" /\ dbReachable) ~> LoopEnded

C27_Witness ==
    /\ LoopEnded /\ dbReachable /\ ~exec_result.ok
    /\ attempts = 3 /\ Len(sent) = 5 /\ exec_result.error = "no such column: val"
    /\ exec_result.rows = <<>>

\* C28: for a question routed to structured-only the first query sent to the
\* Query Service does not depend on the retrieved fragments: it is the query
\* the same question gives when nothing is retrieved.
C28_SqlRouteQueryIgnoresFragments ==
    route = "sql" /\ sent # <<>> => sent[1] = GenerateTable[<<cur_question, <<>>>>]

\* C29: the citations of a response contain a table name only when the query
\* of the response is non-empty; a response that reports total failure cites
\* chunk ids only.
C29_TablesCitedOnlyWithQuery ==
    pc = "done" /\ (\E i \in 1..Len(out.citations) : out.citations[i] \in TableNames)
        => out.sql # ""

(***************************************************************************)
(* The column the scalar rewrap aggregates, against the columns the        *)
(* wrapped query produces.                                                 *)
(***************************************************************************)

\* the word of s that starts at position i
RECURSIVE WordFrom(_, _)
WordFrom(s, i) ==
    IF i <= Len(s) /\ IsWordChar(CharAt(s, i))
    THEN CharAt(s, i) \o WordFrom(s, i + 1)
    ELSE ""

\* the select list of a template: its text before the first FROM
SelectList(sql) ==
    LET i == Find(sql, "FROM ", 1)
    IN  IF i = 0 THEN sql ELSE Slice(sql, 1, i - 1)

\* the output column names of a template: the aliases of its select list
OutputAliases(sql) ==
    LET l == SelectList(sql)
    IN  {WordFrom(l, i + 4) : i \in {h \in 1..Len(l) : Slice(l, h, h + 3) = " as "}}

\* the column under the AVG of the wrap built by _wrap_scalar
AvgColumn(w) ==
    LET i == Find(w, "AVG(", 1)
    IN  IF i = 0 THEN "" ELSE WordFrom(w, i + 4)

AliasTable == [g \in GeneratedSqls |-> OutputAliases(g)]
AvgColumnTable == [p \in Pairs(GeneratedSqls, {"int", "float"}) |-> AvgColumn(ShapeRepairTable[p])]

\* C30: for every query template, the scalar rewrap aggregates a column that
\* the wrapped inner query produces: whenever the loop holds the rewrap of a
\* generated query, the column name under the outer AVG is one of the output
\* column names (aliases) of that inner query.
C30_WrapAggregatesProducedColumn ==
    /\ pc = "repair_execute" /\ cur_format_hint \in {"int", "float"}
    /\ sent # <<>> /\ sent[Len(sent)] \in GeneratedSqls
    /\ cur_sql = ShapeRepairTable[<<sent[Len(sent)], cur_format_hint>>]
    => AvgColumnTable[<<sent[Len(sent)], cur_format_hint>>] \in AliasTable[sent[Len(sent)]]

=============================================================================
